---------------------------- MODULE Spec2Model ----------------------------
(***************************************************************************)
(* A model of the CodeVF Python SDK: the synchronous client                *)
(* (src/src/codevf/client.py), its error mapping, its resources            *)
(* (src/src/codevf/resources/) and the response models                     *)
(* (src/src/codevf/models/).                                               *)
(*                                                                         *)
(* One invocation of a public operation is one action: the action picks    *)
(* the caller's arguments and the transport's behaviour, runs the whole    *)
(* handler and leaves the requests it handed to the transport in `sent`   *)
(* and what the caller observes in `outcome`.                              *)
(***************************************************************************)
EXTENDS Integers, Sequences, FiniteSets, TLC

VARIABLES
    pc,        \* "idle": the caller is about to call; "done": a call ended
    op,        \* the operation of the call that ended: "create", "retrieve", ...
    args,      \* the arguments the caller passed to it
    reply,     \* what the transport does when (if) the call reaches it
    sent,      \* the requests handed to session.request during the call
    handled,   \* TRUE iff _handle_response ran during the call
    outcome,   \* what the caller observes: a returned value or a raised exception
    client,    \* the CodeVFClient the caller holds, NoClient before construction
    earlier,   \* TRUE iff the client has completed a call before this one
    held       \* the caller's mutable arguments as the call left them

vars == <<pc, op, args, reply, sent, handled, outcome, client, earlier, held>>

---------------------------------------------------------------------------
(* Python values.  A leaf value is a record [t, s, n]: its type tag, its   *)
(* text when it is a str, its number when it is an int.  "missing" stands  *)
(* for a key that is not in a dict.                                        *)

Leaf(t, s, n) == [t |-> t, s |-> s, n |-> n]
Missing == Leaf("missing", "", 0)
PyNone == Leaf("NoneType", "", 0)
PyStr(s) == Leaf("str", s, 0)
PyInt(n) == Leaf("int", "", n)
PyList == Leaf("list", "", 0)

\* dict.get(key): a missing key reads as None
Get(v) == IF v.t = "missing" THEN PyNone ELSE v

\* dict.get(key, default)
GetDefault(v, default) == IF v.t = "missing" THEN default ELSE v

\* Python truthiness of a leaf value (the list of the model is non-empty)
Truthy(v) ==
    CASE v.t \in {"missing", "NoneType"} -> FALSE
      [] v.t = "int" -> v.n # 0
      [] v.t = "str" -> v.s # ""
      [] OTHER -> TRUE

\* x or y
PyOr(x, y) == IF Truthy(x) THEN x ELSE y

(* The value of `error` in a response dict: missing, None, a str, a list,  *)
(* or a dict with (possibly missing) code, message and status.             *)
ErrorValue(t, s, code, message, status) ==
    [t |-> t, s |-> s, code |-> code, message |-> message, status |-> status]
ErrorMissing == ErrorValue("missing", "", Missing, Missing, Missing)
ErrorStr(s) == ErrorValue("str", s, Missing, Missing, Missing)
ErrorList == ErrorValue("list", "", Missing, Missing, Missing)
ErrorDict(code, message, status) == ErrorValue("dict", "", code, message, status)

(* The parsed body of a response (`data` in _handle_response): None, a     *)
(* str, a list, or a dict with (possibly missing) error, message, status.  *)
Data(t, s, error, message, status) ==
    [t |-> t, s |-> s, error |-> error, message |-> message, status |-> status]
DataNone == Data("NoneType", "", ErrorMissing, Missing, Missing)
DataStr(s) == Data("str", s, ErrorMissing, Missing, Missing)
DataList == Data("list", "", ErrorMissing, Missing, Missing)
DataDict(error, message, status) == Data("dict", "", error, message, status)

---------------------------------------------------------------------------
(* Exceptions (src/src/codevf/exceptions.py).                              *)

APIErrorFamily ==
    {"APIError", "AuthenticationError", "NotFoundError", "RateLimitError",
     "ServerError", "BadRequestError", "InvalidModeError", "InvalidTagError",
     "InvalidMetadataError", "MaxCreditsExceededError",
     "AttachmentLimitExceededError", "AttachmentTooLargeError",
     "IdempotencyConflictError", "InsufficientCreditsError",
     "InvalidSchemaError", "PayloadTooLargeError"}

ERROR_CODE_EXCEPTION_MAP ==
    [c \in {"invalid_mode", "invalid_tag", "invalid_metadata",
            "max_credits_exceeded", "attachment_limit_exceeded",
            "attachment_too_large", "idempotency_conflict",
            "insufficient_credits", "token_expired", "rate_limit_exceeded"} |->
        CASE c = "invalid_mode" -> "InvalidModeError"
          [] c = "invalid_tag" -> "InvalidTagError"
          [] c = "invalid_metadata" -> "InvalidMetadataError"
          [] c = "max_credits_exceeded" -> "MaxCreditsExceededError"
          [] c = "attachment_limit_exceeded" -> "AttachmentLimitExceededError"
          [] c = "attachment_too_large" -> "AttachmentTooLargeError"
          [] c = "idempotency_conflict" -> "IdempotencyConflictError"
          [] c = "insufficient_credits" -> "InsufficientCreditsError"
          [] c = "token_expired" -> "AuthenticationError"
          [] c = "rate_limit_exceeded" -> "RateLimitError"]

(* What the caller observes.  `exc` is the class of the raised exception;  *)
(* status_code and body are the attributes APIError.__init__ sets, Missing *)
(* and DataNone on exceptions that have no such attributes.                *)
Returned(value) ==
    [kind |-> "returned", exc |-> "", message |-> Missing,
     status_code |-> Missing, body |-> DataNone, value |-> value]
Raised(exc, message) ==
    [kind |-> "raised", exc |-> exc, message |-> message,
     status_code |-> Missing, body |-> DataNone, value |-> DataNone]
APIError(exc, message, status_code, body) ==
    [kind |-> "raised", exc |-> exc, message |-> message,
     status_code |-> status_code, body |-> body, value |-> DataNone]
NoOutcome ==
    [kind |-> "none", exc |-> "", message |-> Missing,
     status_code |-> Missing, body |-> DataNone, value |-> DataNone]

---------------------------------------------------------------------------
(* The transport (requests.Session.request), an external collaborator: it  *)
(* either raises a requests.exceptions.RequestException (timeout, network  *)
(* failure, retries exhausted) or returns a response with a status code    *)
(* and a content that is empty, JSON, or text that is not JSON.            *)

Content(enc, text, json) == [enc |-> enc, text |-> text, json |-> json]
EmptyContent == Content("empty", "", DataNone)
JsonContent(d) == Content("json", "", d)
TextContent(s) == Content("text", s, DataNone)

TransportRaises == [kind |-> "raise", status_code |-> 0, content |-> EmptyContent]
Response(status_code, content) ==
    [kind |-> "response", status_code |-> status_code, content |-> content]

\* data = response.json() if response.content else None; on ValueError the text
ParseBody(content) ==
    CASE content.enc = "empty" -> DataNone
      [] content.enc = "json" -> content.json
      [] OTHER -> DataStr(content.text)

---------------------------------------------------------------------------
(* The error mapper of CodeVFClient.                                       *)

\* f"API request failed with status {fallback_status}"
DefaultMessage(fallback_status) ==
    Leaf("str", "API request failed with status", fallback_status)

\* str.lower() on the error codes of the model
Lower(s) ==
    CASE s = "INVALID_TAG" -> "invalid_tag"
      [] s = "Token_Expired" -> "token_expired"
      [] OTHER -> s

\* the decimal numerals of the model, as int() reads them
NumeralValue == ("400" :> 400) @@ ("404" :> 404) @@ ("500" :> 500)

\* try: int(status) except (TypeError, ValueError): fallback_status
IntOrFallback(status, fallback_status) ==
    CASE status.t = "int" -> status.n
      [] status.t = "str" /\ status.s \in DOMAIN NumeralValue -> NumeralValue[status.s]
      [] OTHER -> fallback_status

extract_error_payload(data, fallback_status) ==
    LET default == DefaultMessage(fallback_status)
        fb == PyInt(fallback_status)
        error_value == data.error
        isDict == data.t = "dict"
        message ==
            CASE isDict /\ error_value.t = "dict" ->
                    GetDefault(error_value.message, default)
              [] isDict /\ error_value.t = "str" -> PyStr(error_value.s)
              [] isDict /\ error_value.t \notin {"dict", "str"}
                        /\ data.message.t # "missing" -> data.message
              [] data.t = "str" /\ data.s # "" -> PyStr(data.s)
              [] OTHER -> default
        error_code ==
            IF isDict /\ error_value.t = "dict"
            THEN Get(error_value.code) ELSE PyNone
        status ==
            CASE isDict /\ error_value.t = "dict" ->
                    PyOr(GetDefault(error_value.status, fb), fb)
              [] isDict /\ error_value.t = "str" ->
                    PyOr(GetDefault(data.status, fb), fb)
              [] OTHER -> fb
    IN  [message |-> message, code |-> error_code,
         status |-> IntOrFallback(status, fallback_status)]

\* a slip: the table is consulted before the status rules
resolve_exception_class_table_first(status_code, error_code) ==
    IF Truthy(error_code) /\ error_code.t # "str"
    THEN [raises |-> "AttributeError", cls |-> ""]
    ELSE
      LET normalized_error == Lower(PyOr(error_code, PyStr("")).s)
          cls ==
              CASE normalized_error \in DOMAIN ERROR_CODE_EXCEPTION_MAP ->
                     ERROR_CODE_EXCEPTION_MAP[normalized_error]
                [] status_code \in {401, 403} -> "AuthenticationError"
                [] status_code = 404 -> "NotFoundError"
                [] status_code = 429 -> "RateLimitError"
                [] status_code = 413 -> "PayloadTooLargeError"
                [] 500 <= status_code /\ status_code < 600 -> "ServerError"
                [] status_code = 400 -> "BadRequestError"
                [] OTHER -> "APIError"
      IN  [raises |-> "", cls |-> cls]

\* a slip: a code the table does not hold is an error of its own
resolve_exception_class_strict(status_code, error_code) ==
    IF Truthy(error_code) /\ error_code.t # "str"
    THEN [raises |-> "AttributeError", cls |-> ""]
    ELSE
      LET normalized_error == Lower(PyOr(error_code, PyStr("")).s)
          cls ==
              CASE status_code \in {401, 403} -> "AuthenticationError"
                [] status_code = 404 -> "NotFoundError"
                [] status_code = 429 -> "RateLimitError"
                [] status_code = 413 -> "PayloadTooLargeError"
                [] 500 <= status_code /\ status_code < 600 -> "ServerError"
                [] OTHER ->
                     IF normalized_error \in DOMAIN ERROR_CODE_EXCEPTION_MAP
                     THEN ERROR_CODE_EXCEPTION_MAP[normalized_error]
                     ELSE "APIError"
      IN  [raises |-> "", cls |-> cls]

(* _resolve_exception_class: `raises` names the exception that             *)
(* (error_code or "").lower() raises when the code is truthy and not a     *)
(* str; otherwise `cls` is the class returned.                             *)
resolve_exception_class(status_code, error_code) ==
    IF Truthy(error_code) /\ error_code.t # "str"
    THEN [raises |-> "AttributeError", cls |-> ""]
    ELSE
      LET normalized_error == Lower(PyOr(error_code, PyStr("")).s)
          base_exception ==
              IF status_code = 400 THEN "BadRequestError" ELSE "APIError"
          cls ==
              CASE status_code \in {401, 403} -> "AuthenticationError"
                [] status_code = 404 -> "NotFoundError"
                [] status_code = 429 -> "RateLimitError"
                [] status_code = 413 -> "PayloadTooLargeError"
                [] 500 <= status_code /\ status_code < 600 -> "ServerError"
                [] OTHER ->
                     \* ERROR_CODE_EXCEPTION_MAP.get(normalized_error, base_exception)
                     IF normalized_error \in DOMAIN ERROR_CODE_EXCEPTION_MAP
                     THEN ERROR_CODE_EXCEPTION_MAP[normalized_error]
                     ELSE base_exception
      IN  [raises |-> "", cls |-> cls]

\* a slip: a body that is not a dict is refused after a successful status
handle_response_decoding(response) ==
    LET data == ParseBody(response.content)
    IN  IF 200 <= response.status_code /\ response.status_code < 300
        THEN IF data.t = "dict" THEN Returned(data)
             ELSE Raised("TypeError", PyStr("response is not a mapping"))
        ELSE
          LET p == extract_error_payload(data, response.status_code)
              r == resolve_exception_class(p.status, p.code)
          IN  IF r.raises # ""
              THEN Raised(r.raises, PyStr("object has no attribute 'lower'"))
              ELSE APIError(r.cls, p.message, PyInt(p.status), data)

handle_response(response) ==
    LET data == ParseBody(response.content)
    IN  IF 200 <= response.status_code /\ response.status_code < 300
        THEN Returned(data)
        ELSE
          LET p == extract_error_payload(data, response.status_code)
              r == resolve_exception_class(p.status, p.code)
          IN  IF r.raises # ""
              THEN Raised(r.raises, PyStr("object has no attribute 'lower'"))
              ELSE APIError(r.cls, p.message, PyInt(p.status), data)

\* a slip: the RequestException is not caught and reaches the caller
request_uncaught(method, path, has_json, json, headers, rep) ==
    [sent |-> <<[method |-> method, path |-> path, has_json |-> has_json,
                 json |-> json, headers |-> headers]>>,
     handled |-> rep.kind = "response",
     outcome |-> IF rep.kind = "raise"
                 THEN Raised("RequestException", PyStr("timed out"))
                 ELSE handle_response(rep)]

\* a slip: a rate-limited or failed request is sent again
request_resends(method, path, has_json, json, headers, rep) ==
    [sent |-> IF rep.kind = "response" /\ rep.status_code >= 429
              THEN <<[method |-> method, path |-> path, has_json |-> has_json,
                      json |-> json, headers |-> headers],
                     [method |-> method, path |-> path, has_json |-> has_json,
                      json |-> json, headers |-> headers]>>
              ELSE <<[method |-> method, path |-> path, has_json |-> has_json,
                      json |-> json, headers |-> headers]>>,
     handled |-> rep.kind = "response",
     outcome |-> IF rep.kind = "raise"
                 THEN Raised("APIConnectionError", PyStr("Connection error"))
                 ELSE handle_response(rep)]

(* The `headers` argument of request: None, or a dict, of which the model  *)
(* keeps the Authorization entry (NoHeader when the dict has none).        *)
NoHeader == [scheme |-> "", credentials |-> ""]
NoHeaders == [t |-> "NoneType", Authorization |-> NoHeader]
Headers(authorization) == [t |-> "dict", Authorization |-> authorization]

(* CodeVFClient.request: one call of session.request; a RequestException   *)
(* becomes APIConnectionError, a response goes to _handle_response.  The   *)
(* result is what the call leaves: the requests sent, whether the          *)
(* response was handled, and the outcome.  Request is a call of            *)
(* session.request made with no headers of its own.                        *)
Request(method, path, has_json, json) ==
    [method |-> method, path |-> path, has_json |-> has_json, json |-> json,
     headers |-> NoHeaders]

request(method, path, has_json, json, headers, rep) ==
    [sent |-> <<[Request(method, path, has_json, json)
                    EXCEPT !.headers = headers]>>,
     handled |-> rep.kind = "response",
     outcome |-> IF rep.kind = "raise"
                 THEN Raised("APIConnectionError", PyStr("Connection error"))
                 ELSE handle_response(rep)]

\* client.get(path) and client.post(path, data=None)
get(path, rep) == request("GET", path, FALSE, PyNone, NoHeaders, rep)
post(path, has_json, json, rep) ==
    request("POST", path, has_json, json, NoHeaders, rep)

\* a call that raised before it reached the client
RaisedLocally(exc, message) ==
    [sent |-> <<>>, handled |-> FALSE, outcome |-> Raised(exc, message)]

---------------------------------------------------------------------------
(* Construction of the client (CodeVFClient.__init__).                     *)

\* str.endswith
EndsWith(cs, suffix) ==
    /\ Len(suffix) <= Len(cs)
    /\ \A i \in 1..Len(suffix) : cs[Len(cs) - Len(suffix) + i] = suffix[i]

(* A URL is the sequence of its pieces, every "/" a piece of its own, so   *)
(* that endswith("/") and += "/" are computed on it.  The base_url         *)
(* argument is None or a str.                                              *)
NoUrl == [t |-> "NoneType", url |-> <<>>]
Url(pieces) == [t |-> "str", url |-> pieces]
DEFAULT_BASE_URL ==
    <<"https:", "/", "/", "codevf.com", "/", "api", "/", "v1", "/">>

\* f"Bearer {self.api_key}"
Bearer(api_key) == [scheme |-> "Bearer", credentials |-> api_key]

\* no client: the constructor has not run, or it raised
NoClient == [constructed |-> FALSE, api_key |-> "", Authorization |-> NoHeader, base_url |-> <<>>]

\* a slip: the slash is appended whatever the base ends with
normalized_base_url_appends(base_url) ==
    LET chosen == IF base_url.t = "str" /\ base_url.url # <<>>
                  THEN base_url.url ELSE DEFAULT_BASE_URL
    IN  chosen \o <<"/">>

\* self.base_url: the argument or the default, "/" appended unless it ends with one
normalized_base_url(base_url) ==
    LET chosen == IF base_url.t = "str" /\ base_url.url # <<>>
                  THEN base_url.url ELSE DEFAULT_BASE_URL
    IN  IF EndsWith(chosen, <<"/">>) THEN chosen ELSE chosen \o <<"/">>

\* a slip: the environment variable is read first
CodeVFClient_init_env_first(api_key, environ, base_url) ==
    LET key == PyOr(Get(environ), api_key)
    IN  IF ~Truthy(key)
        THEN [raises |-> "AuthenticationError", client |-> NoClient]
        ELSE [raises |-> "",
              client |-> [constructed |-> TRUE, api_key |-> key.s,
                          Authorization |-> Bearer(key.s),
                          base_url |-> normalized_base_url(base_url)]]

(* CodeVFClient.__init__ with _configure_session: `api_key` is the         *)
(* argument (None when not given), `environ` the value of CODEVF_API_KEY   *)
(* (Missing when unset).  The session's Authorization header is set once,  *)
(* here; get and post pass no headers of their own.                        *)
CodeVFClient_init(api_key, environ, base_url) ==
    LET key == PyOr(api_key, Get(environ))
    IN  IF ~Truthy(key)
        THEN [raises |-> "AuthenticationError", client |-> NoClient]
        ELSE [raises |-> "",
              client |-> [constructed |-> TRUE, api_key |-> key.s,
                          Authorization |-> Bearer(key.s),
                          base_url |-> normalized_base_url(base_url)]]

(* session.request(..., headers=headers): the Authorization header the     *)
(* request goes out with.  The session's headers are merged with those of  *)
(* the call, and an entry of the call replaces the session's.              *)
AuthorizationSent(self, req) ==
    IF req.headers.t = "dict" /\ req.headers.Authorization # NoHeader
    THEN req.headers.Authorization
    ELSE self.Authorization

---------------------------------------------------------------------------
(* Tasks (src/src/codevf/resources/tasks.py).                              *)
(*                                                                         *)
(* A prompt is modelled by its character count, the only thing create      *)
(* reads of it.  A mode argument is a plain str or a ServiceMode member;   *)
(* ServiceMode is a str-Enum, so a member hashes, compares and serializes  *)
(* as its value.                                                           *)

MIN_PROMPT_LENGTH == 10
MAX_PROMPT_LENGTH == 10000
MIN_MAX_CREDITS == 1
MAX_MAX_CREDITS == 1920
MAX_ATTACHMENTS == 5

valid_modes == {"realtime_answer", "fast", "standard"}

Mode(enum, value) == [enum |-> enum, value |-> value]
ModeValue(mode) == mode.value

\* an optional dict argument (metadata): None, or the entries in order
NoneDict == [t |-> "NoneType", items |-> <<>>]
Dict(items) == [t |-> "dict", items |-> items]
Entry(key, value) == [key |-> key, value |-> value]

\* an optional list argument (attachments): None, or the elements in order
NoneList == [t |-> "NoneType", items |-> <<>>]
List(items) == [t |-> "list", items |-> items]
MissingList == [t |-> "missing", items |-> <<>>]
MissingDict == [t |-> "missing", items |-> <<>>]

(* An element of `attachments`: a dict with (possibly missing) fileName,   *)
(* mimeType, content and base64, or a value that is not a dict.            *)
Attachment(t, fileName, mimeType, content, base64) ==
    [t |-> t, fileName |-> fileName, mimeType |-> mimeType,
     content |-> content, base64 |-> base64]
NotADict == Attachment("str", Missing, Missing, Missing, Missing)

\* "key" in att
Has(v) == v.t # "missing"

(* The ValueError create raises for the attachment at an index, "" when    *)
(* the attachment passes the checks of lines 62-77.                        *)
attachment_error(att) ==
    IF att.t # "dict" THEN "must be a dictionary."
    ELSE IF ~Has(att.fileName) \/ ~Has(att.mimeType)
    THEN "missing required fields 'fileName' or 'mimeType'."
    ELSE IF ~Has(att.content) /\ ~Has(att.base64)
    THEN "must provide 'content' (or 'base64')."
    ELSE ""

\* a slip: base64 wins over content when both are given
normalize_prefers_base64(att) ==
    IF Has(att.base64)
    THEN [att EXCEPT !.content = att.base64, !.base64 = Missing]
    ELSE att

(* new_att of lines 68-74: a copy with base64 moved to content when there  *)
(* is no content, and dropped when there is.                               *)
normalize(att) ==
    IF Has(att.base64)
    THEN IF ~Has(att.content)
         THEN [att EXCEPT !.content = att.base64, !.base64 = Missing]
         ELSE [att EXCEPT !.base64 = Missing]
    ELSE att

\* a slip: the caller's mapping is normalized, no copy is made
normalized_copy_in_place(att) ==
    [att |-> normalize(att), new_att |-> normalize(att)]

(* One turn of the loop of lines 61-79 on an attachment that passes its    *)
(* checks: new_att = att.copy() is normalized and appended, `att`, the     *)
(* caller's mapping, is as it was.                                         *)
normalized_copy(att) == [att |-> att, new_att |-> normalize(att)]

Payload(prompt, max_credits, project_id, mode, metadata, idempotency_key, attachments) ==
    [prompt |-> prompt, maxCredits |-> max_credits, projectId |-> project_id,
     mode |-> mode,
     metadata |-> IF metadata.t # "NoneType" THEN metadata ELSE MissingDict,
     idempotencyKey |-> IF idempotency_key.t # "NoneType"
                        THEN idempotency_key ELSE Missing,
     attachments |-> IF Len(attachments) > 0
                     THEN List(attachments) ELSE MissingList,
     tagId |-> Missing,
     responseSchema |-> Missing]

\* the index of the first attachment create rejects, 0 when there is none
FirstBad(items) ==
    IF \E i \in 1..Len(items) : attachment_error(items[i]) # ""
    THEN CHOOSE i \in 1..Len(items) :
            /\ attachment_error(items[i]) # ""
            /\ \A j \in 1..(i - 1) : attachment_error(items[j]) = ""
    ELSE 0

(* Tasks.create.  `a` holds the arguments of the call; tag_id and          *)
(* response_schema are Missing when the caller does not pass them: the     *)
(* signature has no such parameters, so passing one is a TypeError raised  *)
(* by the call itself.                                                     *)
\* a slip: the bounds taken as exclusive
prompt_ok_exclusive(prompt) ==
    MIN_PROMPT_LENGTH < prompt /\ prompt < MAX_PROMPT_LENGTH

prompt_ok(prompt) == MIN_PROMPT_LENGTH <= prompt /\ prompt <= MAX_PROMPT_LENGTH

\* a slip: the widened bounds of a later revision
max_credits_ok_widened(max_credits) == 60 <= max_credits /\ max_credits <= 115200

max_credits_ok(max_credits) ==
    MIN_MAX_CREDITS <= max_credits /\ max_credits <= MAX_MAX_CREDITS

\* a slip: only a plain str is looked up
mode_ok_str_only(mode) == ~mode.enum /\ ModeValue(mode) \in valid_modes

mode_ok(mode) == ModeValue(mode) \in valid_modes

attachments_given(attachments) ==
    attachments.t = "list" /\ Len(attachments.items) > 0

\* a slip: the limit off by one
count_ok_off_by_one(attachments) == Len(attachments.items) <= MAX_ATTACHMENTS + 1

count_ok(attachments) == Len(attachments.items) <= MAX_ATTACHMENTS

create(a, rep) ==
    IF Has(a.tag_id) \/ Has(a.response_schema)
    THEN RaisedLocally("TypeError", PyStr("got an unexpected keyword argument"))
    ELSE IF ~prompt_ok(a.prompt)
    THEN RaisedLocally("ValueError",
            PyStr("Prompt must be between 10 and 10,000 characters."))
    ELSE IF ~max_credits_ok(a.max_credits)
    THEN RaisedLocally("ValueError",
            PyStr("max_credits must be between 1 and 1920."))
    ELSE IF ~mode_ok(a.mode)
    THEN RaisedLocally("ValueError", PyStr("Invalid mode"))
    ELSE IF attachments_given(a.attachments) /\ ~count_ok(a.attachments)
    THEN RaisedLocally("ValueError", PyStr("Maximum of 5 attachments allowed."))
    ELSE IF attachments_given(a.attachments)
            /\ FirstBad(a.attachments.items) # 0
    THEN RaisedLocally("ValueError",
            Leaf("str",
                 attachment_error(a.attachments.items[FirstBad(a.attachments.items)]),
                 FirstBad(a.attachments.items) - 1))
    ELSE
      LET normalized_attachments ==
              [i \in 1..Len(a.attachments.items) |->
                  normalized_copy(a.attachments.items[i]).new_att]
      IN  post(<<"tasks", "create">>, TRUE,
               Payload(a.prompt, a.max_credits, a.project_id,
                       ModeValue(a.mode), a.metadata, a.idempotency_key,
                       normalized_attachments),
               rep)

(* The caller's attachments list and metadata mapping after create: the    *)
(* loop runs when the earlier checks passed, over the attachments before   *)
(* the first one it rejects; the list is only read, and the metadata       *)
(* mapping is placed in the payload as it is.                              *)
create_leaves(a) ==
    LET items == a.attachments.items
        reached == /\ ~(Has(a.tag_id) \/ Has(a.response_schema))
                   /\ prompt_ok(a.prompt)
                   /\ max_credits_ok(a.max_credits)
                   /\ mode_ok(a.mode)
                   /\ attachments_given(a.attachments)
                   /\ count_ok(a.attachments)
        last == IF FirstBad(items) = 0 THEN Len(items) ELSE FirstBad(items) - 1
    IN  [attachments |->
            IF reached
            THEN [a.attachments EXCEPT !.items =
                     [i \in 1..Len(items) |->
                         IF i <= last THEN normalized_copy(items[i]).att
                         ELSE items[i]]]
            ELSE a.attachments,
         metadata |-> a.metadata]

\* a slip: the id is checked after the request was made
retrieve_validates_late(task_id, rep) ==
    LET r == get(<<"tasks", task_id.s>>, rep)
    IN  IF ~Truthy(task_id)
        THEN [r EXCEPT !.outcome =
                 Raised("ValueError", PyStr("task_id must be provided."))]
        ELSE r

\* Tasks.retrieve
retrieve(task_id, rep) ==
    IF ~Truthy(task_id)
    THEN RaisedLocally("ValueError", PyStr("task_id must be provided."))
    ELSE get(<<"tasks", task_id.s>>, rep)

\* a slip: the id is sent as a body, to the collection
cancel_sends_body(task_id, rep) ==
    IF ~Truthy(task_id)
    THEN RaisedLocally("ValueError", PyStr("task_id must be provided."))
    ELSE post(<<"tasks", "cancel">>, TRUE, task_id, rep)

\* Tasks.cancel
cancel(task_id, rep) ==
    IF ~Truthy(task_id)
    THEN RaisedLocally("ValueError", PyStr("task_id must be provided."))
    ELSE post(<<"tasks", task_id.s, "cancel">>, FALSE, PyNone, rep)

---------------------------------------------------------------------------
(* Strings.  TLA+ strings are atoms, so the characters of every string     *)
(* the validators read are given by Chars.                                 *)

Chars ==
    ("key" :> <<"k", "e", "y">>)
      @@ ("priority" :> <<"p", "r", "i", "o", "r", "i", "t", "y">>)
      @@ ("retries_2" :> <<"r", "e", "t", "r", "i", "e", "s", "_", "2">>)
      @@ ("bad key!" :> <<"b", "a", "d", " ", "k", "e", "y", "!">>)
      @@ ("nested" :> <<"n", "e", "s", "t", "e", "d">>)
      @@ ("nothing" :> <<"n", "o", "t", "h", "i", "n", "g">>)
      @@ ("f.txt" :> <<"f", ".", "t", "x", "t">>)
      @@ ("file2.png" :> <<"f", "i", "l", "e", "2", ".", "p", "n", "g">>)
      @@ ("a.exe" :> <<"a", ".", "e", "x", "e">>)
      @@ ("doc.pdf" :> <<"d", "o", "c", ".", "p", "d", "f">>)
      @@ ("SGVs+nl+bG8=" :> <<"S", "G", "V", "s", "\n", "b", "G", "8", "=">>)
      @@ ("" :> <<>>)
      @@ ("flag" :> <<"f", "l", "a", "g">>)
      @@ ("ratio" :> <<"r", "a", "t", "i", "o">>)
      @@ ("7" :> <<"7">>)
      @@ ("key+nl" :> <<"k", "e", "y", "\n">>)
      @@ ("Mixed_Case_9" :> <<"M", "i", "x", "e", "d", "_", "C", "a", "s", "e", "_", "9">>)
      @@ ("a.png" :> <<"a", ".", "p", "n", "g">>)
      @@ ("notes.txt" :> <<"n", "o", "t", "e", "s", ".", "t", "x", "t">>)
      @@ ("A.PNG" :> <<"A", ".", "P", "N", "G">>)
      @@ ("data.json" :> <<"d", "a", "t", "a", ".", "j", "s", "o", "n">>)
      @@ ("noext" :> <<"n", "o", "e", "x", "t">>)
      @@ ("photo.jpeg" :> <<"p", "h", "o", "t", "o", ".", "j", "p", "e", "g">>)
      @@ ("report.pdf.exe" :> <<"r", "e", "p", "o", "r", "t", ".", "p", "d", "f", ".", "e", "x", "e">>)
      @@ ("main.py" :> <<"m", "a", "i", "n", ".", "p", "y">>)
      @@ ("text" :> <<"t", "e", "x", "t">>)
      @@ ("SGVsbG8=" :> <<"S", "G", "V", "s", "b", "G", "8", "=">>)
      @@ ("AAAA" :> <<"A", "A", "A", "A">>)
      @@ ("not base64!" :> <<"n", "o", "t", " ", "b", "a", "s", "e", "6", "4", "!">>)
      @@ ("uuid" :> <<"u", "u", "i", "d">>)
      @@ ("123e4567-e89b-42d3-a456-426614174000" :> <<"1", "2", "3", "e", "4", "5", "6", "7", "-", "e", "8", "9", "b", "-", "4", "2", "d", "3", "-", "a", "4", "5", "6", "-", "4", "2", "6", "6", "1", "4", "1", "7", "4", "0", "0", "0">>)
      @@ ("123e4567-e89b-12d3-a456-426614174000" :> <<"1", "2", "3", "e", "4", "5", "6", "7", "-", "e", "8", "9", "b", "-", "1", "2", "d", "3", "-", "a", "4", "5", "6", "-", "4", "2", "6", "6", "1", "4", "1", "7", "4", "0", "0", "0">>)
      @@ ("text/plain" :> <<"t", "e", "x", "t", "/", "p", "l", "a", "i", "n">>)
      @@ ("image/png" :> <<"i", "m", "a", "g", "e", "/", "p", "n", "g">>)
      @@ ("application/x-msdownload" :> <<"a", "p", "p", "l", "i", "c", "a", "t", "i", "o", "n", "/", "x", "-", "m", "s", "d", "o", "w", "n", "l", "o", "a", "d">>)
      @@ ("png" :> <<"p", "n", "g">>)
      @@ ("jpg" :> <<"j", "p", "g">>)
      @@ ("jpeg" :> <<"j", "p", "e", "g">>)
      @@ ("gif" :> <<"g", "i", "f">>)
      @@ ("webp" :> <<"w", "e", "b", "p">>)
      @@ ("pdf" :> <<"p", "d", "f">>)
      @@ ("py" :> <<"p", "y">>)
      @@ ("js" :> <<"j", "s">>)
      @@ ("ts" :> <<"t", "s">>)
      @@ ("java" :> <<"j", "a", "v", "a">>)
      @@ ("cpp" :> <<"c", "p", "p">>)
      @@ ("c" :> <<"c">>)
      @@ ("cs" :> <<"c", "s">>)
      @@ ("go" :> <<"g", "o">>)
      @@ ("rs" :> <<"r", "s">>)
      @@ ("kt" :> <<"k", "t">>)
      @@ ("swift" :> <<"s", "w", "i", "f", "t">>)
      @@ ("php" :> <<"p", "h", "p">>)
      @@ ("rb" :> <<"r", "b">>)
      @@ ("jsx" :> <<"j", "s", "x">>)
      @@ ("tsx" :> <<"t", "s", "x">>)
      @@ ("txt" :> <<"t", "x", "t">>)
      @@ ("json" :> <<"j", "s", "o", "n">>)
      @@ ("xml" :> <<"x", "m", "l">>)
      @@ ("csv" :> <<"c", "s", "v">>)
      @@ ("log" :> <<"l", "o", "g">>)

UpperCase == <<"A", "B", "C", "D", "E", "F", "G", "H", "I", "J", "K", "L", "M", "N", "O", "P", "Q", "R", "S", "T", "U", "V", "W", "X", "Y", "Z">>
LowerCase == <<"a", "b", "c", "d", "e", "f", "g", "h", "i", "j", "k", "l", "m", "n", "o", "p", "q", "r", "s", "t", "u", "v", "w", "x", "y", "z">>
Digits == {"0", "1", "2", "3", "4", "5", "6", "7", "8", "9"}
Letters == {UpperCase[i] : i \in 1..26} \cup {LowerCase[i] : i \in 1..26}
Whitespace == {" ", "\t", "\n", "\r"}

\* str.lower(), character by character
LowerChar(c) ==
    IF \E i \in 1..26 : UpperCase[i] = c
    THEN LowerCase[CHOOSE i \in 1..26 : UpperCase[i] = c]
    ELSE c
LowerSeq(cs) == [i \in 1..Len(cs) |-> LowerChar(cs[i])]

---------------------------------------------------------------------------
(* validate_metadata (src/src/codevf/utils/metadata.py).                   *)

\* METADATA_KEY_PATTERN.fullmatch(key), the pattern ^[A-Za-z0-9_]+$
METADATA_KEY_PATTERN(key) ==
    /\ Len(Chars[key]) >= 1
    /\ \A i \in 1..Len(Chars[key]) :
          Chars[key][i] \in Letters \cup Digits \cup {"_"}

\* isinstance(value, (str, bool, int, float))
JSONPrimitive(value) == value.t \in {"str", "bool", "int", "float"}

(* isinstance(key, str): the keys of the model are the text of the key; an *)
(* entry whose key is not a str says so.                                   *)
KeyIsStr(entry) == "key_type" \notin DOMAIN entry

\* a slip: the argument itself is returned once it is checked
validate_metadata_returns_argument(metadata) ==
    IF metadata.t = "NoneType"
    THEN [raises |-> "", value |-> NoneDict, is_argument |-> FALSE]
    ELSE IF metadata.t # "dict"
    THEN [raises |-> "InvalidMetadataError", value |-> NoneDict,
          is_argument |-> FALSE]
    ELSE IF \E i \in 1..Len(metadata.items) :
               \/ ~KeyIsStr(metadata.items[i])
               \/ ~METADATA_KEY_PATTERN(metadata.items[i].key)
               \/ ~JSONPrimitive(metadata.items[i].value)
    THEN [raises |-> "InvalidMetadataError", value |-> NoneDict,
          is_argument |-> FALSE]
    ELSE [raises |-> "", value |-> metadata, is_argument |-> TRUE]

(* `raises` is "" when validate_metadata returns `value`: None for None,   *)
(* else `validated`, a dict created by the call and filled with the        *)
(* entries of the argument in their order.  `is_argument` tells whether    *)
(* the returned object is the argument itself.  The argument is only read. *)
validate_metadata(metadata) ==
    IF metadata.t = "NoneType"
    THEN [raises |-> "", value |-> NoneDict, is_argument |-> FALSE]
    ELSE IF metadata.t # "dict"
    THEN [raises |-> "InvalidMetadataError", value |-> NoneDict,
          is_argument |-> FALSE]
    ELSE IF \E i \in 1..Len(metadata.items) :
               \/ ~KeyIsStr(metadata.items[i])
               \/ ~METADATA_KEY_PATTERN(metadata.items[i].key)
               \/ ~JSONPrimitive(metadata.items[i].value)
    THEN [raises |-> "InvalidMetadataError", value |-> NoneDict,
          is_argument |-> FALSE]
    ELSE [raises |-> "",
          value |-> Dict([i \in 1..Len(metadata.items) |->
                            Entry(metadata.items[i].key,
                                  metadata.items[i].value)]),
          is_argument |-> FALSE]

---------------------------------------------------------------------------
(* Attachment (src/src/codevf/models/attachment.py).                       *)

MAX_TEXT_BYTES == 1048576
MAX_BINARY_BYTES == 10485760

AttachmentCategory(name, extensions, mime_types, max_bytes, requires_base64) ==
    [name |-> name, extensions |-> extensions, mime_types |-> mime_types,
     max_bytes |-> max_bytes, requires_base64 |-> requires_base64]

IMAGE_CATEGORY ==
    AttachmentCategory("image", {"png", "jpg", "jpeg", "gif", "webp"},
        {"image/png", "image/jpeg", "image/gif", "image/webp"},
        MAX_BINARY_BYTES, TRUE)

PDF_CATEGORY ==
    AttachmentCategory("pdf", {"pdf"}, {"application/pdf"},
        MAX_BINARY_BYTES, TRUE)

CODE_CATEGORY ==
    AttachmentCategory("code",
        {"py", "js", "ts", "java", "cpp", "c", "cs", "go", "rs", "kt",
         "swift", "php", "rb", "jsx", "tsx"},
        {"text/x-python", "application/javascript", "text/typescript",
         "text/x-java-source", "text/plain", "application/x-c++src",
         "text/x-csrc", "text/x-csharp", "text/x-go", "text/x-rustsrc",
         "text/x-kotlin", "text/x-php", "text/x-ruby"},
        MAX_TEXT_BYTES, FALSE)

TEXT_CATEGORY ==
    AttachmentCategory("text", {"txt", "json", "xml", "csv", "log"},
        {"text/plain", "application/json", "text/xml", "application/xml",
         "text/csv"},
        MAX_TEXT_BYTES, FALSE)

NO_CATEGORY == AttachmentCategory("", {}, {}, 0, FALSE)

ALL_CATEGORIES == <<IMAGE_CATEGORY, PDF_CATEGORY, CODE_CATEGORY, TEXT_CATEGORY>>

\* AttachmentCategory.matches
matches(category, file_name, mime_type) ==
    \/ \E ext \in category.extensions :
          EndsWith(LowerSeq(Chars[file_name]), <<".">> \o Chars[ext])
    \/ mime_type \in category.mime_types

\* a slip: the last category that matches is chosen
select_category_last_match(file_name, mime_type) ==
    IF \E i \in 1..Len(ALL_CATEGORIES) :
          matches(ALL_CATEGORIES[i], file_name, mime_type)
    THEN ALL_CATEGORIES[CHOOSE i \in 1..Len(ALL_CATEGORIES) :
            /\ matches(ALL_CATEGORIES[i], file_name, mime_type)
            /\ \A j \in (i + 1)..Len(ALL_CATEGORIES) :
                  ~matches(ALL_CATEGORIES[j], file_name, mime_type)]
    ELSE NO_CATEGORY

\* Attachment._select_category; NO_CATEGORY when it raises
select_category(file_name, mime_type) ==
    IF \E i \in 1..Len(ALL_CATEGORIES) :
          matches(ALL_CATEGORIES[i], file_name, mime_type)
    THEN ALL_CATEGORIES[CHOOSE i \in 1..Len(ALL_CATEGORIES) :
            /\ matches(ALL_CATEGORIES[i], file_name, mime_type)
            /\ \A j \in 1..(i - 1) :
                  ~matches(ALL_CATEGORIES[j], file_name, mime_type)]
    ELSE IF EndsWith(LowerSeq(Chars[file_name]), <<".">> \o Chars["pdf"])
    THEN PDF_CATEGORY
    ELSE IF \/ EndsWith(LowerSeq(Chars[file_name]), <<".">> \o Chars["txt"])
            \/ EndsWith(LowerSeq(Chars[file_name]), <<".">> \o Chars["log"])
    THEN TEXT_CATEGORY
    ELSE NO_CATEGORY

(* Contents.  A content is a sequence of runs, each a character repeated  *)
(* `count` times: the contents of Chars are runs of one, the long contents *)
(* are given by LongContents.  "e-acute" is a character of two bytes in    *)
(* UTF-8.                                                                  *)
Run(char, count) == [char |-> char, count |-> count]

LongContents ==
    ("x*1048576" :> <<Run("x", 1048576)>>)
      @@ ("x*1048577" :> <<Run("x", 1048577)>>)
      @@ ("x*1048570+sp*6" :> <<Run("x", 1048570), Run(" ", 6)>>)
      @@ ("x*1048570+sp*7" :> <<Run("x", 1048570), Run(" ", 7)>>)
      @@ ("e-acute*524288" :> <<Run("e-acute", 524288)>>)
      @@ ("e-acute*524288+x" :> <<Run("e-acute", 524288), Run("x", 1)>>)
      @@ ("A*10485760" :> <<Run("A", 10485760)>>)
      @@ ("A*10485761" :> <<Run("A", 10485761)>>)
      @@ ("A*10485764" :> <<Run("A", 10485764)>>)
      @@ ("A*10485760+nl" :> <<Run("A", 10485760), Run("\n", 1)>>)
      @@ ("A*10485761+nl" :> <<Run("A", 10485761), Run("\n", 1)>>)
      @@ ("A*10485756+nl*8" :> <<Run("A", 10485756), Run("\n", 8)>>)

Runs(content) ==
    IF content \in DOMAIN LongContents
    THEN LongContents[content]
    ELSE [i \in 1..Len(Chars[content]) |-> Run(Chars[content][i], 1)]

\* the number of bytes of a character in UTF-8
Utf8Bytes(char) == IF char = "e-acute" THEN 2 ELSE 1

\* len(s.encode("utf-8"))
RECURSIVE Utf8Len(_)
Utf8Len(runs) ==
    IF runs = <<>> THEN 0
    ELSE Utf8Bytes(Head(runs).char) * Head(runs).count + Utf8Len(Tail(runs))

\* re.sub(r"\s+", "", content)
StripWhitespace(runs) == SelectSeq(runs, LAMBDA r : r.char \notin Whitespace)

\* a slip: the whitespace is counted
calculate_bytes_unstripped(content, requires_base64) == Utf8Len(Runs(content))

\* Attachment._calculate_bytes
calculate_bytes(content, requires_base64) ==
    IF requires_base64
    THEN Utf8Len(StripWhitespace(Runs(content)))
    ELSE Utf8Len(Runs(content))

\* the number of characters of the runs that are in `chars`
RECURSIVE CountChars(_, _)
CountChars(runs, chars) ==
    IF runs = <<>> THEN 0
    ELSE (IF Head(runs).char \in chars THEN Head(runs).count ELSE 0)
            + CountChars(Tail(runs), chars)

(* base64.b64decode(content, validate=True) succeeds: only characters of   *)
(* the base64 alphabet, then only padding, and the padding completes the   *)
(* last group of four.                                                     *)
Base64Alphabet == Letters \cup Digits \cup {"+", "/"}
b64decode_ok(content) ==
    LET rs == Runs(content)
        p == CountChars(rs, {"="})
        d == CountChars(rs, {rs[i].char : i \in 1..Len(rs)}) - p
    IN  /\ \A i \in 1..Len(rs) : rs[i].char \in Base64Alphabet \cup {"="}
        /\ \A i, j \in 1..Len(rs) :
              (i < j /\ rs[i].char = "=") => rs[j].char = "="
        /\ CASE d = 0 -> p = 0
             [] d > 0 /\ d % 4 = 0 -> TRUE
             [] d % 4 = 1 -> FALSE
             [] d % 4 = 2 -> p = 2
             [] OTHER -> p = 1

(* Attachment._validate_content: the message of the                       *)
(* AttachmentTooLargeError it raises, "" when it returns.                  *)
validate_content(content, category) ==
    IF calculate_bytes(content, category.requires_base64) > category.max_bytes
    THEN "exceeds the byte limit"
    ELSE IF category.requires_base64 /\ ~b64decode_ok(content)
    THEN "must be valid base64"
    ELSE ""

\* Attachment._validate_content does not raise
validate_content_ok(content, category) == validate_content(content, category) = ""

(* Attachment.from_mapping followed by Attachment.__init__: the message of *)
(* the AttachmentTooLargeError raised on the element `raw` of an           *)
(* attachment list, "" when the Attachment is constructed.                 *)
from_mapping(raw) ==
    LET file_name == PyOr(Get(raw.fileName), PyNone)
        mime_type == PyOr(Get(raw.mimeType), PyNone)
        content == IF Has(raw.base64) /\ Get(raw.content).t = "NoneType"
                   THEN raw.base64 ELSE Get(raw.content)
    IN  IF raw.t # "dict" THEN "Each attachment must be a mapping."
        ELSE IF content.t # "str" THEN "content/base64 must be a string."
        ELSE IF file_name.t # "str" \/ mime_type.t # "str"
        THEN "fileName and mimeType must be strings."
        ELSE IF select_category(file_name.s, mime_type.s) = NO_CATEGORY
        THEN "Unsupported attachment type"
        ELSE validate_content(content.s,
                              select_category(file_name.s, mime_type.s))

\* Attachment.from_mapping does not raise
from_mapping_ok(raw) == from_mapping(raw) = ""

\* Attachment.to_payload of the Attachment from_mapping constructs
to_payload(raw) ==
    [t |-> "dict", fileName |-> raw.fileName, mimeType |-> raw.mimeType,
     content |-> IF Has(raw.base64) /\ Get(raw.content).t = "NoneType"
                 THEN raw.base64 ELSE raw.content]

---------------------------------------------------------------------------
(* The bodies of successful responses.  Each is a dict as _handle_response *)
(* sees it (t, s, error, message, status) with the keys of its resource;   *)
(* a key that is not in the dict is Missing.                               *)

\* an element of `deliverables`
DeliverableBody(fileName, url, uploadedAt, mimeType) ==
    [fileName |-> fileName, url |-> url, uploadedAt |-> uploadedAt,
     mimeType |-> mimeType]

\* the value of `deliverables`: missing, a list of dicts, or a str
NoDeliverables == [t |-> "missing", s |-> "", items |-> <<>>]
DeliverableList(items) == [t |-> "list", s |-> "", items |-> items]
DeliverableStr(s) == [t |-> "str", s |-> s, items |-> <<>>]

\* the value of `result`: missing, None, or a dict
ResultBody(t, message, deliverables, score) ==
    [t |-> t, message |-> message, deliverables |-> deliverables,
     score |-> score]
NoResult == ResultBody("missing", Missing, NoDeliverables, Missing)
NoneResult == ResultBody("NoneType", Missing, NoDeliverables, Missing)

\* a task as the API returns it
TaskBody(id, status, mode, maxCredits, createdAt, creditsUsed, result, responseSchema) ==
    [t |-> "dict", s |-> "", error |-> ErrorMissing, message |-> Missing,
     status |-> status, id |-> id, mode |-> mode, maxCredits |-> maxCredits,
     createdAt |-> createdAt, creditsUsed |-> creditsUsed, result |-> result,
     responseSchema |-> responseSchema]

\* a project, a credit balance, the tags, as the API returns them
ProjectBody(id, name, createdAt, description) ==
    [t |-> "dict", s |-> "", error |-> ErrorMissing, message |-> Missing,
     status |-> Missing, id |-> id, name |-> name, createdAt |-> createdAt,
     description |-> description]

CreditsBody(available, onHold, total) ==
    [t |-> "dict", s |-> "", error |-> ErrorMissing, message |-> Missing,
     status |-> Missing, available |-> available, onHold |-> onHold,
     total |-> total]

\* an element of a tag array: a dict, or something that is not a dict
TagBody(id, name, displayName, costMultiplier) ==
    [t |-> "dict", s |-> "", id |-> id, name |-> name,
     displayName |-> displayName, costMultiplier |-> costMultiplier]
NotATag(s) == [t |-> "str", s |-> s, id |-> Missing, name |-> Missing,
               displayName |-> Missing, costMultiplier |-> Missing]

\* the value of a key that holds an array, Missing when the key is absent
Array(items) == [t |-> "list", s |-> "", n |-> 0, items |-> items]

\* {"success": true, "data": [...]}, {"success": true, "tags": [...]}, [...]
TagsBody(data, tags) ==
    [t |-> "dict", s |-> "", error |-> ErrorMissing, message |-> Missing,
     status |-> Missing, data |-> data, tags |-> tags]
TagsArray(items) ==
    [t |-> "list", s |-> "", error |-> ErrorMissing, message |-> Missing,
     status |-> Missing, items |-> items]

\* payload[key], Missing when the dict has no such key
Key(payload, key) ==
    IF key \in DOMAIN payload THEN payload[key] ELSE Missing

\* the decimal numerals int() reads and str() writes, in the model
Numerals == NumeralValue @@ ("42" :> 42) @@ ("7" :> 7)

\* int(v): `raises` names the exception of a value int() does not take
int(v) ==
    CASE v.t = "int" -> [raises |-> "", n |-> v.n]
      [] v.t = "str" /\ v.s \in DOMAIN Numerals ->
            [raises |-> "", n |-> Numerals[v.s]]
      [] v.t = "str" -> [raises |-> "ValueError", n |-> 0]
      [] OTHER -> [raises |-> "TypeError", n |-> 0]

\* str(v)
str(v) ==
    CASE v.t = "str" -> v.s
      [] v.t = "NoneType" -> "None"
      [] v.t = "int" /\ (\E t \in DOMAIN Numerals : Numerals[t] = v.n) ->
            CHOOSE t \in DOMAIN Numerals : Numerals[t] = v.n
      [] OTHER -> "?"

---------------------------------------------------------------------------
(* The task models (src/src/codevf/models/task.py).  Each from_payload     *)
(* gives `raises`, the exception it ends with ("" when it returns), and    *)
(* `value`, the object it returns.                                         *)

(* decimal.Decimal: a coefficient, given by its decimal digits from the    *)
(* most significant, times 10^exp.  An arithmetic operation gives the      *)
(* exact result rounded half-even to the precision of the context.         *)
Decimal(digits, exp) == [digits |-> digits, exp |-> exp]

\* decimal.getcontext().prec, the default context
prec == 28

\* the digits of a natural number, and the number of a digit sequence
RECURSIVE DigitsOf(_)
DigitsOf(n) == IF n < 10 THEN <<n>> ELSE DigitsOf(n \div 10) \o <<n % 10>>

RECURSIVE ValueOf(_)
ValueOf(ds) ==
    IF ds = <<>> THEN 0
    ELSE ValueOf(SubSeq(ds, 1, Len(ds) - 1)) * 10 + ds[Len(ds)]

RECURSIVE StripZeros(_)
StripZeros(ds) ==
    IF Len(ds) > 1 /\ Head(ds) = 0 THEN StripZeros(Tail(ds)) ELSE ds

\* the digits of the coefficient `ds` times m plus carry
RECURSIVE TimesInt(_, _, _)
TimesInt(ds, m, carry) ==
    IF ds = <<>>
    THEN IF carry = 0 THEN <<>> ELSE DigitsOf(carry)
    ELSE LET v == ds[Len(ds)] * m + carry
         IN  TimesInt(SubSeq(ds, 1, Len(ds) - 1), m, v \div 10) \o <<v % 10>>

\* the digits of the coefficient `ds` plus one
RECURSIVE PlusOne(_)
PlusOne(ds) ==
    IF ds = <<>> THEN <<1>>
    ELSE IF ds[Len(ds)] < 9
    THEN SubSeq(ds, 1, Len(ds) - 1) \o <<ds[Len(ds)] + 1>>
    ELSE PlusOne(SubSeq(ds, 1, Len(ds) - 1)) \o <<0>>

\* the rounding of a result to `prec` digits, ROUND_HALF_EVEN
RoundHalfEven(d) ==
    LET ds == StripZeros(d.digits)
        n == Len(ds)
        kept == SubSeq(ds, 1, prec)
        rest == SubSeq(ds, prec + 1, n)
        restZero == \A i \in 2..Len(rest) : rest[i] = 0
        up == \/ rest[1] > 5
              \/ rest[1] = 5 /\ ~restZero
              \/ rest[1] = 5 /\ restZero /\ kept[prec] % 2 = 1
        rounded == IF up THEN PlusOne(kept) ELSE kept
    IN  IF n <= prec THEN Decimal(ds, d.exp)
        ELSE IF Len(rounded) > prec
        THEN Decimal(SubSeq(rounded, 1, prec), d.exp + (n - prec) + 1)
        ELSE Decimal(rounded, d.exp + (n - prec))

(* Decimal(m) * Decimal(coefficient 1, exponent e) * d for a natural m:    *)
(* the first product is exact, the second is rounded.                      *)
DecimalTimes(m, e, d) ==
    RoundHalfEven(Decimal(TimesInt(d.digits, m, 0), d.exp + e))

\* d.quantize(Decimal("1"), rounding=ROUND_UP), as a number
quantize_round_up(d) ==
    LET n == Len(d.digits)
        k == 0 - d.exp
        whole == IF n > k THEN ValueOf(SubSeq(d.digits, 1, n - k)) ELSE 0
        fraction == IF n > k THEN SubSeq(d.digits, n - k + 1, n) ELSE d.digits
    IN  IF d.exp >= 0 THEN ValueOf(d.digits) * 10 ^ d.exp
        ELSE IF \E i \in 1..Len(fraction) : fraction[i] # 0
        THEN whole + 1
        ELSE whole

\* ServiceMode.sla_multiplier: Decimal("2"), Decimal("1.5"), Decimal("1")
sla_multiplier(mode) ==
    CASE mode = "realtime_answer" -> Decimal(<<2>>, 0)
      [] mode = "fast" -> Decimal(<<1, 5>>, -1)
      [] mode = "standard" -> Decimal(<<1>>, 0)

\* calculate_final_credit_cost
calculate_final_credit_cost(max_credits, mode, tag_multiplier) ==
    LET sla == sla_multiplier(mode)
        raw == DecimalTimes(max_credits * ValueOf(sla.digits), sla.exp,
                            tag_multiplier)
    IN  quantize_round_up(raw)

\* ServiceMode.validate
ServiceMode_validate(value) ==
    IF value \in valid_modes
    THEN [raises |-> "", value |-> value]
    ELSE [raises |-> "ValueError", value |-> ""]

\* TaskDeliverable.from_payload
TaskDeliverable_from_payload(payload) ==
    IF ~Has(payload.fileName) \/ ~Has(payload.url) \/ ~Has(payload.uploadedAt)
    THEN [raises |-> "KeyError", value |-> [t |-> "NoneType"]]
    ELSE [raises |-> "",
          value |-> [t |-> "TaskDeliverable",
                     file_name |-> payload.fileName.s,
                     url |-> payload.url.s,
                     uploaded_at |-> payload.uploadedAt.s,
                     mime_type |-> Get(payload.mimeType)]]

\* no TaskResult: the `result` attribute is None
NoTaskResult == [t |-> "NoneType", message |-> PyNone, deliverables |-> <<>>]

\* TaskResult.from_payload
TaskResult_from_payload(payload) ==
    LET items == IF payload.deliverables.t = "list"
                 THEN payload.deliverables.items ELSE <<>>
    IN  IF \E i \in 1..Len(items) :
              TaskDeliverable_from_payload(items[i]).raises # ""
        THEN [raises |-> "KeyError", value |-> NoTaskResult]
        ELSE [raises |-> "",
              value |-> [t |-> "TaskResult",
                         message |-> Get(payload.message),
                         deliverables |->
                            [i \in 1..Len(items) |->
                                TaskDeliverable_from_payload(items[i]).value]]]

(* TaskResponse.from_payload: the mode is resolved first, then the result  *)
(* is decoded, then id, status, maxCredits and createdAt are read.  The    *)
(* class has no response_schema attribute: reading it raises               *)
(* AttributeError, which Missing stands for.                               *)
TaskResponse_from_payload(payload) ==
    LET mode_value == str(GetDefault(payload.mode, PyStr("standard")))
        mode == ServiceMode_validate(mode_value)
        result == IF payload.result.t = "dict"
                  THEN TaskResult_from_payload(payload.result)
                  ELSE [raises |-> "", value |-> NoTaskResult]
        max_credits == int(payload.maxCredits)
        none == [t |-> "NoneType"]
    IN  IF mode.raises # "" THEN [raises |-> mode.raises, value |-> none]
        ELSE IF result.raises # "" THEN [raises |-> result.raises, value |-> none]
        ELSE IF ~Has(payload.id) \/ ~Has(payload.status)
                \/ ~Has(payload.maxCredits)
        THEN [raises |-> "KeyError", value |-> none]
        ELSE IF max_credits.raises # ""
        THEN [raises |-> max_credits.raises, value |-> none]
        ELSE IF ~Has(payload.createdAt)
        THEN [raises |-> "KeyError", value |-> none]
        ELSE [raises |-> "",
              value |-> [t |-> "TaskResponse",
                         id |-> str(payload.id),
                         status |-> str(payload.status),
                         mode |-> mode.value,
                         max_credits |-> max_credits.n,
                         created_at |-> str(payload.createdAt),
                         credits_used |-> Get(payload.creditsUsed),
                         result |-> result.value,
                         response_schema |-> Missing]]

---------------------------------------------------------------------------
(* Projects, Credits and Tags (src/src/codevf/resources/).                 *)

(* Project.from_payload: payload["id"], payload["name"] and                *)
(* payload["createdAt"] are read in this order; a payload that is not a    *)
(* dict cannot be subscripted by a str.                                    *)
Project_from_payload(payload) ==
    LET none == [t |-> "NoneType"]
    IN  IF payload.t # "dict"
        THEN [raises |-> "TypeError", value |-> none]
        ELSE IF ~Has(Key(payload, "id"))
        THEN [raises |-> "KeyError", value |-> none]
        ELSE IF int(payload.id).raises # ""
        THEN [raises |-> int(payload.id).raises, value |-> none]
        ELSE IF ~Has(Key(payload, "name")) \/ ~Has(Key(payload, "createdAt"))
        THEN [raises |-> "KeyError", value |-> none]
        ELSE [raises |-> "",
              value |-> [t |-> "Project", id |-> int(payload.id).n,
                         name |-> str(payload.name),
                         created_at |-> str(payload.createdAt),
                         description |-> Get(Key(payload, "description"))]]

\* Projects.create
projects_create(name, description, rep) ==
    LET payload == [name |-> name,
                    description |-> IF description.t # "NoneType"
                                    THEN description ELSE Missing]
        r == post(<<"projects", "create">>, TRUE, payload, rep)
        decoded == Project_from_payload(r.outcome.value)
    IN  IF r.outcome.kind # "returned" THEN r
        ELSE IF decoded.raises # ""
        THEN [r EXCEPT !.outcome = Raised(decoded.raises, PyStr("from_payload"))]
        ELSE [r EXCEPT !.outcome = Returned(decoded.value)]

\* Credits.get_balance
get_balance(rep) == get(<<"credits", "balance">>, rep)

\* Tags.list
list(rep) ==
    LET r == get(<<"tags">>, rep)
        response == r.outcome.value
    IN  IF r.outcome.kind # "returned" THEN r
        ELSE IF response.t = "dict" /\ Has(Key(response, "data"))
        THEN [r EXCEPT !.outcome = Returned(response.data)]
        ELSE r

---------------------------------------------------------------------------
(* The calls the model makes: the arguments and the transport's replies.   *)

\* the longest attachment list the caller passes
MaxListLen == 6
\* the longest attachment list whose elements vary independently
MaxVariedLen == 2

PromptLengths ==
    {0, MIN_PROMPT_LENGTH - 1, MIN_PROMPT_LENGTH, MAX_PROMPT_LENGTH,
     MAX_PROMPT_LENGTH + 1}

\* the bounds of the code and the bounds the specification names
CreditValues ==
    {MIN_MAX_CREDITS - 1, MIN_MAX_CREDITS, MAX_MAX_CREDITS, MAX_MAX_CREDITS + 1,
     59, 60, 239, 240, 600, 601, 115200, 115201}

ModeValues ==
    {Mode(FALSE, v) : v \in valid_modes \cup {"invalid"}}
        \cup {Mode(TRUE, v) : v \in valid_modes}

MetadataValues ==
    {NoneDict,
     Dict(<<>>),
     Dict(<<Entry("key", PyStr("value"))>>),
     Dict(<<Entry("priority", PyStr("high")), Entry("retries_2", PyInt(3))>>),
     Dict(<<Entry("bad key!", PyStr("value"))>>),
     Dict(<<Entry("nested", PyList)>>),
     Dict(<<Entry("nothing", PyNone)>>)}

IdempotencyKeys ==
    {PyNone, PyStr("uuid"),
     PyStr("123e4567-e89b-42d3-a456-426614174000"),
     PyStr("123e4567-e89b-12d3-a456-426614174000")}

TagIds == {Missing, PyInt(99), PyInt(0)}

ResponseSchemas == {Missing, Leaf("dict", "object", 0)}

AttachmentValues ==
    {Attachment("dict", PyStr("f.txt"), PyStr("text/plain"), PyStr("text"), Missing),
     Attachment("dict", PyStr("file2.png"), PyStr("image/png"), Missing, PyStr("SGVsbG8=")),
     Attachment("dict", PyStr("file2.png"), PyStr("image/png"), PyStr("SGVsbG8="), PyStr("AAAA")),
     Attachment("dict", PyStr("file2.png"), PyStr("image/png"), PyStr("not base64!"), Missing),
     Attachment("dict", PyStr("a.exe"), PyStr("application/x-msdownload"), PyStr("text"), Missing),
     Attachment("dict", PyStr("f.txt"), Missing, PyStr("text"), Missing),
     Attachment("dict", PyStr("f.txt"), PyStr("text/plain"), Missing, Missing),
     NotADict}

\* the attachments given to Attachment.from_mapping: those above, and
\* contents at and around the size limits for each category
SizedContents == DOMAIN LongContents \cup {"text", "SGVsbG8=", "SGVs+nl+bG8="}
SizedFiles ==
    {<<"f.txt", "text/plain">>, <<"main.py", "text/x-python">>,
     <<"file2.png", "image/png">>, <<"doc.pdf", "application/pdf">>}
MappingValues ==
    AttachmentValues
      \cup {Attachment("dict", PyStr(f[1]), PyStr(f[2]), PyStr(c), Missing) :
               f \in SizedFiles, c \in SizedContents}

(* the headers argument of a direct request: none, a dict without an       *)
(* Authorization entry, a dict with one                                    *)
RequestHeaders ==
    {NoHeaders, Headers(NoHeader),
     Headers([scheme |-> "Basic", credentials |-> "dXNlcjpwYXNz"])}

\* the arguments of calculate_final_credit_cost
CostCredits == {0, 1, 3, 100, 1920, 115200}
Zeros(n) == [i \in 1..n |-> 0]
TagMultipliers ==
    {Decimal(<<0>>, 0), Decimal(<<1>>, 0), Decimal(<<1, 5>>, -1),
     Decimal(<<1, 7>>, -1), Decimal(<<2, 5, 0>>, -2), Decimal(<<3, 3, 3>>, -3),
     Decimal(<<1>>, -3),
     Decimal(<<1>> \o Zeros(24) \o <<1>>, -25),
     Decimal(<<1>> \o Zeros(28) \o <<1>>, -29),
     Decimal([i \in 1..28 |-> 9] \o <<5>>, -29)}

\* a list repeating one element, as [att] * n
Repeated(att, n) == [i \in 1..n |-> att]

AttachmentLists ==
    {NoneList}
      \cup {List(items) :
              items \in UNION {[1..n -> AttachmentValues] : n \in 0..MaxVariedLen}}
      \cup {List(Repeated(att, n)) :
              att \in AttachmentValues, n \in (MaxVariedLen + 1)..MaxListLen}

CreateArgs(prompt, max_credits, project_id, mode, metadata, idempotency_key, attachments, tag_id, response_schema) ==
    [prompt |-> prompt, max_credits |-> max_credits, project_id |-> project_id,
     mode |-> mode, metadata |-> metadata, idempotency_key |-> idempotency_key,
     attachments |-> attachments, tag_id |-> tag_id,
     response_schema |-> response_schema]

(* The calls of create: every combination of the required arguments with   *)
(* no optional argument, and every combination of the optional arguments   *)
(* with required arguments the code accepts.                               *)
CreateCalls ==
    {CreateArgs(p, c, 1, m, NoneDict, PyNone, NoneList, Missing, Missing) :
        p \in PromptLengths, c \in CreditValues, m \in ModeValues}
      \cup
    {CreateArgs(12, 50, 123, Mode(FALSE, "fast"), md, k, att, tag, schema) :
        md \in MetadataValues, k \in IdempotencyKeys, att \in AttachmentLists,
        tag \in TagIds, schema \in ResponseSchemas}

TaskIds == {PyNone, PyStr(""), PyStr("task_789")}

StatusCodes ==
    {200, 204, 299, 300, 400, 401, 402, 403, 404, 413, 429, 499, 500, 503,
     599, 600}

ErrorCodes ==
    {Missing, PyNone, PyStr(""), PyStr("invalid_tag"), PyStr("INVALID_TAG"),
     PyStr("insufficient_credits"), PyStr("token_expired"),
     PyStr("rate_limit_exceeded"), PyStr("no_such_code"), PyInt(42)}

ErrorMessages == {Missing, PyStr("bad tag")}

ErrorStatuses ==
    {Missing, PyNone, PyInt(0), PyInt(400), PyInt(404), PyInt(500),
     PyStr("500"), PyStr("abc")}

Contents ==
    {EmptyContent, TextContent("not json"), JsonContent(DataStr("")),
     JsonContent(DataStr("quoted")), JsonContent(DataList)}
      \cup {JsonContent(DataDict(ErrorDict(c, m, st), Missing, Missing)) :
              c \in ErrorCodes, m \in ErrorMessages, st \in ErrorStatuses}
      \cup {JsonContent(DataDict(e, m, st)) :
              e \in {ErrorMissing, ErrorStr("gone"), ErrorList},
              m \in {Missing, PyStr("just a message")},
              st \in {Missing, PyInt(500)}}

Replies ==
    {TransportRaises} \cup {Response(sc, c) : sc \in StatusCodes, c \in Contents}

(* the arguments of validate_metadata: those of create, a value that is no *)
(* mapping, and mappings with more kinds of keys and values                *)
ValidatedMetadata ==
    MetadataValues
      \cup {[t |-> "list", items |-> <<>>],
            Dict(<<Entry("flag", Leaf("bool", "", 1)),
                   Entry("ratio", Leaf("float", "0.5", 0)),
                   Entry("Mixed_Case_9", PyInt(0))>>),
            Dict(<<Entry("key", PyStr("value")), Entry("", PyStr("value"))>>),
            Dict(<<Entry("key+nl", PyStr("value"))>>),
            Dict(<<[key |-> "7", value |-> PyStr("value"), key_type |-> "int"]>>),
            Dict(<<Entry("7", PyStr("value"))>>),
            Dict(<<Entry("key", PyStr("value")), Entry("nothing", PyNone)>>)}

\* the arguments of _select_category
ClassifiedNames ==
    {"a.png", "A.PNG", "photo.jpeg", "doc.pdf", "main.py", "notes.txt",
     "data.json", "a.exe", "report.pdf.exe", "noext"}
ClassifiedMimeTypes ==
    {"text/plain", "image/png", "application/pdf", "application/json",
     "text/x-python", "application/x-msdownload"}

\* the arguments of _resolve_exception_class
ResolvedStatuses == StatusCodes \cup {409, 422}
ResolvedCodes ==
    {PyNone, PyStr(""), PyStr("no_such_code"), PyStr("INVALID_TAG"),
     PyStr("Token_Expired"), PyInt(42)}
      \cup {PyStr(c) : c \in DOMAIN ERROR_CODE_EXCEPTION_MAP}

\* the task bodies of the tests (test_resources.py)
PendingTask ==
    TaskBody(PyStr("task_123"), PyStr("pending"), PyStr("standard"), PyInt(20),
             PyStr("2026-01-01T00:00:00Z"), Missing, NoResult, Missing)
CompletedTask ==
    TaskBody(PyStr("task_789"), PyStr("completed"), PyStr("fast"), PyInt(30),
             PyStr("2026-01-01T00:00:00Z"), PyInt(35),
             ResultBody("dict", PyStr("Done"), DeliverableList(<<>>), Missing),
             Missing)

\* the payloads of test_structured_output.py and variations of them
ObjectSchema == Leaf("dict", "object", 0)
Deliverable ==
    DeliverableBody(PyStr("report.pdf"), PyStr("https://files/report.pdf"),
                    PyStr("2026-01-02T00:00:00Z"), Missing)
TaskPayloads ==
    {PendingTask, CompletedTask,
     TaskBody(PyStr("task_1"), PyStr("completed"), PyStr("standard"), PyInt(240),
              PyStr("2026-01-01T00:00:00Z"), Missing,
              ResultBody("dict", PyStr("Standard analysis"), DeliverableList(<<>>),
                         Missing),
              Missing),
     TaskBody(PyStr("task_2"), PyStr("completed"), PyStr("realtime_answer"),
              PyInt(60), PyStr("2026-01-01T00:00:00Z"), Missing,
              ResultBody("dict", PyStr("Structured message"),
                         DeliverableStr("This is NOT a list"), Missing),
              ObjectSchema),
     TaskBody(PyStr("task_2"), PyStr("completed"), PyStr("realtime_answer"),
              PyInt(60), PyStr("2026-01-01T00:00:00Z"), Missing,
              ResultBody("dict", PyStr("x"), DeliverableList(<<>>), Missing),
              ObjectSchema),
     TaskBody(PyStr("task_2"), PyStr("pending"), PyStr("realtime_answer"),
              PyInt(60), PyStr("2026-01-01T00:00:00Z"), Missing, NoneResult,
              ObjectSchema),
     TaskBody(PyStr("task_3"), PyStr("completed"), PyStr("realtime_answer"),
              PyInt(60), PyStr("2026-01-01T00:00:00Z"), Missing,
              ResultBody("dict", Missing, NoDeliverables, PyInt(95)), Missing),
     TaskBody(PyStr("task_4"), PyStr("completed"), PyStr("fast"), PyStr("500"),
              PyStr("2026-01-01T00:00:00Z"), PyInt(35),
              ResultBody("dict", PyStr("Done"), DeliverableList(<<Deliverable>>),
                         Missing),
              Missing),
     TaskBody(PyStr("task_5"), PyStr("completed"), PyStr("fast"), PyInt(60),
              PyStr("2026-01-01T00:00:00Z"), Missing,
              ResultBody("dict", PyStr("Done"),
                  DeliverableList(<<DeliverableBody(PyStr("report.pdf"), Missing,
                                                    Missing, Missing)>>),
                  Missing),
              Missing),
     TaskBody(PyStr("task_6"), PyStr("pending"), Missing, PyInt(60),
              PyStr("2026-01-01T00:00:00Z"), Missing, NoResult, Missing),
     TaskBody(PyStr("task_7"), PyStr("pending"), PyStr("turbo"), PyInt(60),
              PyStr("2026-01-01T00:00:00Z"), Missing, NoResult, Missing),
     TaskBody(PyStr("task_8"), PyStr("pending"), PyNone, PyInt(60),
              PyStr("2026-01-01T00:00:00Z"), Missing, NoResult, Missing),
     TaskBody(Missing, PyStr("pending"), PyStr("fast"), PyInt(60),
              PyStr("2026-01-01T00:00:00Z"), Missing, NoResult, Missing),
     TaskBody(PyStr("task_9"), PyStr("pending"), PyStr("fast"), PyStr("abc"),
              PyStr("2026-01-01T00:00:00Z"), Missing, NoResult, Missing)}

\* the replies a create call meets
CreateReplies ==
    {TransportRaises,
     Response(200, JsonContent(DataDict(ErrorMissing, Missing, Missing))),
     Response(200, JsonContent(PendingTask)),
     Response(200, TextContent("not json")),
     Response(204, EmptyContent),
     Response(400, JsonContent(DataDict(
         ErrorDict(PyStr("invalid_tag"), PyStr("bad tag"), Missing),
         Missing, Missing))),
     Response(404, EmptyContent),
     Response(503, TextContent("not json"))}

\* the bodies of the tests (test_resources.py) and variations of them
ProjectBodies ==
    {ProjectBody(PyInt(42), PyStr("New Project"), PyStr("2026-01-01T00:00:00Z"), Missing),
     ProjectBody(PyStr("42"), PyStr("New Project"), PyStr("2026-01-01T00:00:00Z"),
                 PyStr("My Description")),
     ProjectBody(PyInt(42), PyStr("New Project"), Missing, Missing)}

CreditsBodies ==
    {CreditsBody(Leaf("float", "100.5", 0), Leaf("float", "25.0", 0),
                 Leaf("float", "125.5", 0)),
     CreditsBody(Leaf("float", "100.5", 0), Missing, Missing)}

EngineerTag == TagBody(PyInt(1), PyStr("engineer"), PyStr("Engineer"), PyStr("1.7"))
ExpertTag == TagBody(PyInt(7), PyStr("expert"), PyStr("Expert"), Missing)

TagArrays ==
    {<<>>, <<EngineerTag>>, <<EngineerTag, ExpertTag>>,
     <<EngineerTag, NotATag("junk"), ExpertTag>>}

TagsBodies ==
    {TagsBody(Array(items), Missing) : items \in TagArrays}
      \cup {TagsBody(Missing, Array(items)) : items \in TagArrays}
      \cup {TagsArray(items) : items \in TagArrays}

\* the replies a resource call meets: the bodies of its own resource, ...
Succeeds(bodies) == {Response(200, JsonContent(body)) : body \in bodies}

\* ... and the replies any call can meet
Fails ==
    {TransportRaises,
     Response(200, JsonContent(DataDict(ErrorMissing, Missing, Missing))),
     Response(204, EmptyContent),
     Response(400, JsonContent(DataDict(
         ErrorDict(PyStr("invalid_tag"), PyStr("bad tag"), Missing),
         Missing, Missing))),
     Response(404, EmptyContent),
     Response(429, EmptyContent),
     Response(503, TextContent("not json"))}

ProjectNames == {PyStr("New Project")}
ProjectDescriptions == {PyNone, PyStr("My Description")}

NoReply == [kind |-> "unused", status_code |-> 0, content |-> EmptyContent]
NoArgs == [none |-> TRUE]
\* the call was given no mutable argument
NothingHeld == [none |-> TRUE]

\* the api_key argument and the CODEVF_API_KEY variable of a construction
ApiKeyArguments == {PyNone, PyStr(""), PyStr("test_key")}
EnvironValues == {Missing, PyStr(""), PyStr("env_key")}
BaseUrlArguments ==
    {NoUrl, Url(<<>>),
     Url(<<"https:", "/", "/", "api.example.com">>),
     Url(<<"https:", "/", "/", "api.example.com", "/">>)}

---------------------------------------------------------------------------
(* The state machine.                                                      *)

Init ==
    /\ pc = "idle"
    /\ op = "none"
    /\ args = NoArgs
    /\ reply = NoReply
    /\ sent = <<>>
    /\ handled = FALSE
    /\ outcome = NoOutcome
    /\ client = NoClient
    /\ earlier = FALSE
    /\ held = NothingHeld

\* the operations that go through the client
ApiOperations ==
    {"projects.create", "create", "retrieve", "cancel", "get_balance", "list",
     "request"}

(* CodeVFClient(api_key=...): on success the caller holds the new client,  *)
(* on AuthenticationError the caller keeps what it had.                    *)
ClientInit ==
    /\ pc = "idle"
    /\ \E api_key \in ApiKeyArguments, environ \in EnvironValues,
          base_url \in BaseUrlArguments :
          LET r == CodeVFClient_init(api_key, environ, base_url)
          IN  /\ pc' = "done"
              /\ op' = "init"
              /\ args' = [api_key |-> api_key, environ |-> environ,
                           base_url |-> base_url]
              /\ reply' = NoReply
              /\ sent' = <<>>
              /\ handled' = FALSE
              /\ held' = NothingHeld
              /\ IF r.raises # ""
                 THEN /\ outcome' = APIError(r.raises,
                                        PyStr("API key must be provided"),
                                        PyNone, DataNone)
                      /\ UNCHANGED <<client, earlier>>
                 ELSE /\ outcome' = Returned(DataNone)
                      /\ client' = r.client
                      /\ earlier' = FALSE

(* a function of the library was applied: what it leaves, `left` being the *)
(* caller's mutable arguments after it                                     *)
ComputesLeaving(name, a, result, left) ==
    /\ pc' = "done"
    /\ op' = name
    /\ args' = a
    /\ reply' = NoReply
    /\ sent' = <<>>
    /\ handled' = FALSE
    /\ outcome' = result
    /\ held' = left
    /\ UNCHANGED <<client, earlier>>

Computes(name, a, result) == ComputesLeaving(name, a, result, NothingHeld)

\* Attachment.from_mapping(raw).to_payload()
AttachmentFromMapping ==
    /\ pc = "idle"
    /\ \E raw \in MappingValues :
          Computes("from_mapping", [raw |-> raw],
                   IF from_mapping(raw) # ""
                   THEN APIError("AttachmentTooLargeError",
                                 PyStr(from_mapping(raw)), PyNone, DataNone)
                   ELSE Returned(to_payload(raw)))

\* validate_metadata(metadata)
ValidateMetadata ==
    /\ pc = "idle"
    /\ \E metadata \in ValidatedMetadata :
          LET r == validate_metadata(metadata)
          IN  ComputesLeaving("validate_metadata", [metadata |-> metadata],
                  IF r.raises # ""
                  THEN APIError(r.raises, PyStr("Metadata"), PyNone, DataNone)
                  ELSE Returned([t |-> r.value.t, items |-> r.value.items,
                                 is_argument |-> r.is_argument]),
                  [metadata |-> metadata])

\* Attachment._select_category(file_name, mime_type)
SelectCategory ==
    /\ pc = "idle"
    /\ \E file_name \in ClassifiedNames, mime_type \in ClassifiedMimeTypes :
          LET category == select_category(file_name, mime_type)
          IN  Computes("select_category",
                       [file_name |-> file_name, mime_type |-> mime_type],
                       IF category = NO_CATEGORY
                       THEN APIError("AttachmentTooLargeError",
                                     PyStr("Unsupported attachment type"),
                                     PyNone, DataNone)
                       ELSE Returned([t |-> "AttachmentCategory",
                                      s |-> category.name]))

\* CodeVFClient._resolve_exception_class(status_code, error_code)
ResolveExceptionClass ==
    /\ pc = "idle"
    /\ \E status_code \in ResolvedStatuses, error_code \in ResolvedCodes :
          LET r == resolve_exception_class(status_code, error_code)
          IN  Computes("resolve_exception_class",
                       [status_code |-> status_code, error_code |-> error_code],
                       IF r.raises # ""
                       THEN Raised(r.raises,
                                   PyStr("object has no attribute 'lower'"))
                       ELSE Returned([t |-> "type", s |-> r.cls]))

\* calculate_final_credit_cost(max_credits, mode, tag_multiplier)
CalculateFinalCreditCost ==
    /\ pc = "idle"
    /\ \E max_credits \in CostCredits, mode \in valid_modes,
          tag_multiplier \in TagMultipliers :
          Computes("calculate_final_credit_cost",
                   [max_credits |-> max_credits, mode |-> mode,
                    tag_multiplier |-> tag_multiplier],
                   Returned([t |-> "Decimal",
                             n |-> calculate_final_credit_cost(
                                       max_credits, mode, tag_multiplier)]))

\* TaskResponse.from_payload(payload)
TaskResponseFromPayload ==
    /\ pc = "idle"
    /\ \E payload \in TaskPayloads :
          LET r == TaskResponse_from_payload(payload)
          IN  Computes("from_payload", [payload |-> payload],
                       IF r.raises # ""
                       THEN Raised(r.raises, PyStr("from_payload"))
                       ELSE Returned(r.value))

\* a call on the client ended: what it leaves
EndsLeaving(name, a, rep, r, left) ==
    /\ client.constructed
    /\ UNCHANGED client
    /\ UNCHANGED earlier
    /\ pc' = "done"
    /\ op' = name
    /\ args' = a
    /\ reply' = IF r.sent = <<>> THEN NoReply ELSE rep
    /\ sent' = r.sent
    /\ handled' = r.handled
    /\ outcome' = r.outcome
    /\ held' = left

Ends(name, a, rep, r) == EndsLeaving(name, a, rep, r, NothingHeld)

TasksCreate ==
    /\ pc = "idle"
    /\ \E a \in CreateCalls, rep \in CreateReplies :
          EndsLeaving("create", a, rep, create(a, rep), create_leaves(a))

TasksRetrieve ==
    /\ pc = "idle"
    /\ \E task_id \in TaskIds,
          rep \in Replies \cup Succeeds({PendingTask, CompletedTask}) :
          Ends("retrieve", [task_id |-> task_id], rep, retrieve(task_id, rep))

TasksCancel ==
    /\ pc = "idle"
    /\ \E task_id \in TaskIds, rep \in Replies :
          Ends("cancel", [task_id |-> task_id], rep, cancel(task_id, rep))

ProjectsCreate ==
    /\ pc = "idle"
    /\ \E name \in ProjectNames, description \in ProjectDescriptions,
          rep \in Succeeds(ProjectBodies) \cup Fails :
          Ends("projects.create", [name |-> name, description |-> description],
               rep, projects_create(name, description, rep))

CreditsGetBalance ==
    /\ pc = "idle"
    /\ \E rep \in Succeeds(CreditsBodies) \cup Fails :
          Ends("get_balance", NoArgs, rep, get_balance(rep))

TagsList ==
    /\ pc = "idle"
    /\ \E rep \in Succeeds(TagsBodies) \cup Fails :
          Ends("list", NoArgs, rep, list(rep))

\* client.request(method, path, headers=headers) called directly
ClientRequest ==
    /\ pc = "idle"
    /\ \E method \in {"GET", "POST"}, headers \in RequestHeaders,
          rep \in Replies :
          Ends("request",
               [method |-> method, path |-> <<"tags">>, headers |-> headers],
               rep,
               request(method, <<"tags">>, FALSE, PyNone, headers, rep))

(* The call has returned or raised and the caller went on: nothing of it   *)
(* is kept for the next call.                                              *)
ReturnToCaller ==
    /\ pc = "done"
    /\ pc' = "idle"
    /\ op' = "none"
    /\ args' = NoArgs
    /\ reply' = NoReply
    /\ sent' = <<>>
    /\ handled' = FALSE
    /\ outcome' = NoOutcome
    /\ held' = NothingHeld
    /\ UNCHANGED client
    /\ earlier' = (earlier \/ op \in ApiOperations)

Next ==
    \/ ClientInit
    \/ TasksCreate
    \/ TasksRetrieve
    \/ TasksCancel
    \/ ProjectsCreate
    \/ CreditsGetBalance
    \/ TagsList
    \/ ClientRequest
    \/ TaskResponseFromPayload
    \/ AttachmentFromMapping
    \/ CalculateFinalCreditCost
    \/ ResolveExceptionClass
    \/ SelectCategory
    \/ ValidateMetadata
    \/ ReturnToCaller

Spec == Init /\ [][Next]_vars

---------------------------------------------------------------------------
(* Properties.  The predicates below speak of the call that just ended.    *)

CreateDone == pc = "done" /\ op = "create"

\* the call passes only arguments that Tasks.create declares
DeclaredArguments == ~Has(args.tag_id) /\ ~Has(args.response_schema)

RaisedWith(exc, text) ==
    /\ outcome.kind = "raised"
    /\ outcome.exc = exc
    /\ outcome.message = PyStr(text)

PromptMessage == "Prompt must be between 10 and 10,000 characters."
CreditsMessage == "max_credits must be between 1 and 1920."
ModeMessage == "Invalid mode"
LimitMessage == "Maximum of 5 attachments allowed."

PromptInRange == 10 <= args.prompt /\ args.prompt <= 10000
CreditsInRange == 1 <= args.max_credits /\ args.max_credits <= 1920
ModeKnown == args.mode.value \in {"realtime_answer", "fast", "standard"}

\* an attachment the checks of create let through
WellFormed(att) ==
    /\ att.t = "dict"
    /\ Has(att.fileName) /\ Has(att.mimeType)
    /\ Has(att.content) \/ Has(att.base64)

AttachmentsWellFormed ==
    /\ Len(args.attachments.items) <= 5
    /\ \A i \in 1..Len(args.attachments.items) :
          WellFormed(args.attachments.items[i])

PostedToCreate ==
    /\ Len(sent) = 1
    /\ sent[1].method = "POST"
    /\ sent[1].path = <<"tasks", "create">>
    /\ sent[1].has_json

(* C1: create accepts a prompt exactly when its character count is in      *)
(* [10, 10000]: outside it raises the prompt validation error and sends    *)
(* nothing; inside the prompt check passes, and with the other arguments   *)
(* valid the request is sent.                                              *)
C1_PromptLength ==
    (CreateDone /\ DeclaredArguments) =>
        /\ ~PromptInRange => (RaisedWith("ValueError", PromptMessage) /\ sent = <<>>)
        /\ PromptInRange => ~RaisedWith("ValueError", PromptMessage)
        /\ (PromptInRange /\ CreditsInRange /\ ModeKnown /\ AttachmentsWellFormed)
              => PostedToCreate

C1_Witness ==
    /\ CreateDone
    /\ args.prompt = 10000
    /\ PostedToCreate
    /\ sent[1].json.prompt = 10000

\* the credit ranges the specification names, per tier, and its global range
ClaimedGlobalRange == <<60, 115200>>
ClaimedTierRange(tier) ==
    CASE tier = "realtime_answer" -> <<60, 600>>
      [] tier = "fast" -> <<240, 115200>>
      [] tier = "standard" -> <<240, 115200>>

Within(c, range) == range[1] <= c /\ c <= range[2]

(* C2 as stated: with a valid prompt and a known tier, create passes       *)
(* credit validation iff maxCredits lies in the global range [60, 115200]  *)
(* and in the tier's own range.                                            *)
C2_TierCreditRange ==
    (CreateDone /\ DeclaredArguments /\ PromptInRange /\ ModeKnown) =>
        (~RaisedWith("ValueError", CreditsMessage)
            <=> /\ Within(args.max_credits, ClaimedGlobalRange)
                /\ Within(args.max_credits, ClaimedTierRange(args.mode.value)))

(* C2 amended: with a valid prompt, create passes credit validation iff    *)
(* 1 <= maxCredits <= 1920, the same range for every tier; otherwise it    *)
(* raises the credits validation error and sends nothing.                  *)
C2_CreditRange ==
    (CreateDone /\ DeclaredArguments /\ PromptInRange) =>
        /\ ~RaisedWith("ValueError", CreditsMessage) <=> CreditsInRange
        /\ ~CreditsInRange => sent = <<>>
        /\ (CreditsInRange /\ ModeKnown /\ AttachmentsWellFormed) => PostedToCreate

C2_Witness ==
    /\ CreateDone
    /\ args.mode.value = "realtime_answer"
    /\ args.max_credits = 601
    /\ PostedToCreate
    /\ sent[1].json.maxCredits = 601

(* C3: a call of create, retrieve or cancel that ends by raising a local   *)
(* validation error made no call to the client's get, post or request and  *)
(* handled no response.                                                    *)
C3_ValidationNeverReachesTransport ==
    (/\ pc = "done"
     /\ op \in {"create", "retrieve", "cancel"}
     /\ outcome.kind = "raised"
     /\ outcome.exc = "ValueError") => (sent = <<>> /\ ~handled)

C3_Witness ==
    /\ CreateDone
    /\ Len(args.attachments.items) = 2
    /\ outcome.kind = "raised"
    /\ outcome.exc = "ValueError"
    /\ outcome.message = Leaf("str", "must provide 'content' (or 'base64').", 1)
    /\ sent = <<>>

(* uuid.UUID(key) parses the key and its version is 4: 32 hexadecimal      *)
(* digits once the hyphens are removed, the 13th of them the version.      *)
HexDigits == Digits \cup {"a", "b", "c", "d", "e", "f", "A", "B", "C", "D", "E", "F"}
parses_as_uuid4(key) ==
    LET hex == SelectSeq(Chars[key], LAMBDA c : c # "-")
    IN  /\ Len(hex) = 32
        /\ \A i \in 1..32 : hex[i] \in HexDigits
        /\ hex[13] = "4"

(* C4: create sends a request only when every supplied optional input has  *)
(* passed its validator: each attachment the attachment validator, the     *)
(* idempotency key the version-4 UUID check, the tag id positivity, the    *)
(* metadata the metadata validator.                                        *)
C4_OptionalInputsValidated ==
    (CreateDone /\ sent # <<>>) =>
        /\ \A i \in 1..Len(args.attachments.items) :
              from_mapping_ok(args.attachments.items[i])
        /\ \/ args.idempotency_key.t = "NoneType"
           \/ /\ args.idempotency_key.t = "str"
              /\ parses_as_uuid4(args.idempotency_key.s)
        /\ Has(args.tag_id) => (args.tag_id.t = "int" /\ args.tag_id.n > 0)
        /\ validate_metadata(args.metadata).raises = ""

AttachmentsChecked ==
    /\ CreateDone /\ DeclaredArguments
    /\ PromptInRange /\ CreditsInRange /\ ModeKnown
    /\ args.attachments.t = "list"

(* C5 as stated: with the earlier checks passed, more than 5 attachments   *)
(* raise AttachmentLimitExceeded whatever the attachments are, and nothing *)
(* is sent; 1..5 attachments pass the count check.                         *)
C5_AttachmentLimitExceeded ==
    AttachmentsChecked =>
        /\ Len(args.attachments.items) > 5 =>
              /\ outcome.kind = "raised"
              /\ outcome.exc = "AttachmentLimitExceededError"
              /\ sent = <<>>
        /\ Len(args.attachments.items) \in 1..5 =>
              ~RaisedWith("ValueError", LimitMessage)

(* C5 amended: with the earlier checks passed, more than 5 attachments     *)
(* raise the local validation error ValueError("Maximum of 5 attachments   *)
(* allowed.") whatever the attachments are, and nothing is sent; 1..5      *)
(* attachments pass the count check.                                       *)
C5_AttachmentLimit ==
    AttachmentsChecked =>
        /\ Len(args.attachments.items) > 5 =>
              (RaisedWith("ValueError", LimitMessage) /\ sent = <<>>)
        /\ Len(args.attachments.items) \in 1..5 =>
              ~RaisedWith("ValueError", LimitMessage)

C5_Witness ==
    /\ CreateDone
    /\ Len(args.attachments.items) = 6
    /\ args.attachments.items[1] = NotADict
    /\ RaisedWith("ValueError", LimitMessage)
    /\ sent = <<>>

ModeChecked == CreateDone /\ DeclaredArguments /\ PromptInRange /\ CreditsInRange

(* C6 as stated: the three tier values, given as a ServiceMode member or   *)
(* as a string, are accepted and sent as `mode`; any other string raises   *)
(* InvalidMode and nothing is sent.                                        *)
C6_InvalidMode ==
    ModeChecked =>
        /\ ModeKnown =>
              /\ outcome.exc \notin {"ValueError", "InvalidModeError"}
                    \/ outcome.message # PyStr(ModeMessage)
              /\ AttachmentsWellFormed =>
                    (PostedToCreate /\ sent[1].json.mode = args.mode.value)
        /\ ~ModeKnown =>
              /\ outcome.kind = "raised"
              /\ outcome.exc = "InvalidModeError"
              /\ sent = <<>>

(* C6 amended: the three tier values, given as a ServiceMode member or as  *)
(* a string, are accepted and sent as `mode`; any other string raises the  *)
(* local validation error ValueError("Invalid mode ...") and nothing is    *)
(* sent.                                                                   *)
C6_ModeResolution ==
    ModeChecked =>
        /\ ModeKnown =>
              /\ ~RaisedWith("ValueError", ModeMessage)
              /\ AttachmentsWellFormed =>
                    (PostedToCreate /\ sent[1].json.mode = args.mode.value)
        /\ ~ModeKnown => (RaisedWith("ValueError", ModeMessage) /\ sent = <<>>)

C6_Witness ==
    /\ CreateDone
    /\ args.mode = Mode(TRUE, "realtime_answer")
    /\ PostedToCreate
    /\ sent[1].json.mode = "realtime_answer"

(* C7: for a call whose arguments are valid, the payload posted to         *)
(* tasks/create holds prompt, maxCredits, projectId and mode equal to the  *)
(* arguments, and each of metadata, tagId, idempotencyKey, attachments,    *)
(* responseSchema exactly when the caller supplied it, with the supplied   *)
(* value (the attachments in their normalized form); an optional that was  *)
(* not supplied is omitted.                                                *)
C7_PayloadAsSupplied ==
    (CreateDone /\ PromptInRange /\ CreditsInRange /\ ModeKnown
        /\ AttachmentsWellFormed) =>
        /\ PostedToCreate
        /\ LET p == sent[1].json
           IN  /\ p.prompt = args.prompt
               /\ p.maxCredits = args.max_credits
               /\ p.projectId = args.project_id
               /\ p.mode = args.mode.value
               /\ IF args.metadata.t = "NoneType"
                  THEN p.metadata.t = "missing"
                  ELSE p.metadata = args.metadata
               /\ IF args.idempotency_key.t = "NoneType"
                  THEN p.idempotencyKey = Missing
                  ELSE p.idempotencyKey = args.idempotency_key
               /\ p.tagId = args.tag_id
               /\ p.responseSchema = args.response_schema
               /\ IF Len(args.attachments.items) = 0
                  THEN p.attachments.t = "missing"
                  ELSE /\ p.attachments.t = "list"
                       /\ Len(p.attachments.items) = Len(args.attachments.items)

InvalidTagBody ==
    JsonContent(DataDict(
        ErrorDict(PyStr("invalid_tag"), PyStr("bad tag"), Missing),
        Missing, Missing))

(* C8: a response with status 404 raises NotFound whatever its body; a 400 *)
(* response with body {error: {code: invalid_tag, message: bad tag}}       *)
(* raises InvalidTag with message "bad tag"; a 503 response raises a       *)
(* Server error.                                                           *)
C8_StatusMapping ==
    (pc = "done" /\ handled) =>
        /\ reply.status_code = 404 =>
              (outcome.kind = "raised" /\ outcome.exc = "NotFoundError")
        /\ (reply.status_code = 400 /\ reply.content = InvalidTagBody) =>
              RaisedWith("InvalidTagError", "bad tag")
        /\ reply.status_code = 503 =>
              (outcome.kind = "raised" /\ outcome.exc = "ServerError")

(* C9: response handling has two outcomes: for a status in [200, 300) the  *)
(* parsed body is returned; for every other status an exception of the     *)
(* APIError family is raised, carrying a message, an integer status code   *)
(* and the parsed body.                                                    *)
C9_TwoOutcomes ==
    (pc = "done" /\ handled /\ op \in {"create", "retrieve", "cancel", "request"}) =>
        IF 200 <= reply.status_code /\ reply.status_code < 300
        THEN /\ outcome.kind = "returned"
             /\ outcome.value = ParseBody(reply.content)
        ELSE /\ outcome.kind = "raised"
             /\ outcome.exc \in APIErrorFamily
             /\ Has(outcome.message)
             /\ outcome.status_code.t = "int"
             /\ outcome.body = ParseBody(reply.content)

(* C10: when the transport raises instead of returning a response, the     *)
(* call raises APIConnectionError: no exception of the APIError family, no *)
(* returned value, and the response mapping does not run.                  *)
C10_ConnectionError ==
    (pc = "done" /\ reply.kind = "raise") =>
        /\ Len(sent) = 1
        /\ outcome.kind = "raised"
        /\ outcome.exc = "APIConnectionError"
        /\ outcome.exc \notin APIErrorFamily
        /\ ~handled

C10_Witness ==
    /\ pc = "done"
    /\ op = "cancel"
    /\ reply.kind = "raise"
    /\ sent = <<Request("POST", <<"tasks", "task_789", "cancel">>, FALSE, PyNone)>>
    /\ outcome.exc = "APIConnectionError"

PassedLocalValidation ==
    CASE op = "create" ->
            /\ DeclaredArguments /\ PromptInRange /\ CreditsInRange /\ ModeKnown
            /\ AttachmentsWellFormed
      [] op \in {"retrieve", "cancel"} ->
            args.task_id.t = "str" /\ args.task_id.s # ""
      [] OTHER -> TRUE

(* C12: a call of projects.create, tasks.create, tasks.retrieve,           *)
(* tasks.cancel, credits.get_balance or tags.list that passes local        *)
(* validation hands exactly one request to the transport, whether the      *)
(* transport answers 2xx, 4xx, 5xx or raises, and whether or not the       *)
(* client completed calls before; the outcome of the call is the outcome   *)
(* of that one request (a 4xx is raised, not re-sent).                     *)
C12_ExactlyOneTransportCall ==
    (pc = "done" /\ op \in ApiOperations /\ PassedLocalValidation) =>
        /\ Len(sent) = 1
        /\ reply.kind \in {"raise", "response"}
        /\ reply.kind = "raise" => outcome.exc = "APIConnectionError"
        /\ (reply.kind = "response" /\ reply.status_code >= 300) =>
              (outcome.kind = "raised" /\ handled)

C12_Witness ==
    /\ pc = "done"
    /\ earlier
    /\ op = "get_balance"
    /\ reply = Response(429, EmptyContent)
    /\ sent = <<Request("GET", <<"credits", "balance">>, FALSE, PyNone)>>
    /\ outcome.exc = "RateLimitError"

(* C13: on a successful response the resource methods return typed domain  *)
(* objects: tasks.create and tasks.retrieve a TaskResponse,                *)
(* credits.get_balance a CreditBalance, projects.create a Project; only    *)
(* tasks.cancel returns the parsed body as it is.                          *)
C13_TypedReturns ==
    (pc = "done" /\ handled /\ reply.status_code = 200) =>
        /\ (/\ op \in {"create", "retrieve"}
            /\ reply.content \in {JsonContent(PendingTask),
                                  JsonContent(CompletedTask)}) =>
              /\ outcome.kind = "returned"
              /\ outcome.value.t = "TaskResponse"
        /\ (/\ op = "get_balance"
            /\ reply.content.json \in CreditsBodies
            /\ Has(reply.content.json.onHold)) =>
              /\ outcome.kind = "returned"
              /\ outcome.value.t = "CreditBalance"
        /\ (/\ op = "projects.create"
            /\ reply.content.json \in ProjectBodies
            /\ Has(reply.content.json.createdAt)) =>
              /\ outcome.kind = "returned"
              /\ outcome.value.t = "Project"
        /\ op = "cancel" =>
              /\ outcome.kind = "returned"
              /\ outcome.value = ParseBody(reply.content)

(* C14: when the payload of a task carries a responseSchema,               *)
(* TaskResponse.from_payload returns a TaskResponse whose `result` is the  *)
(* raw mapping of the payload, unchanged and not a TaskResult, also when   *)
(* the result has `message` and `deliverables` keys, and whose             *)
(* response_schema is the schema of the payload.                           *)
C14_StructuredResultIsRaw ==
    (/\ pc = "done" /\ op = "from_payload"
     /\ args.payload.responseSchema.t = "dict"
     /\ args.payload.result.t = "dict") =>
        /\ outcome.kind = "returned"
        /\ outcome.value.result.t = "dict"
        /\ outcome.value.result = args.payload.result
        /\ outcome.value.response_schema = args.payload.responseSchema

\* the tag array of a response body in one of the three shapes
TagArrayOf(body) ==
    IF body.t = "list" THEN body.items
    ELSE IF Has(Key(body, "data")) THEN body.data.items
    ELSE body.tags.items

(* C15: for each of the response shapes {data: [...]}, {tags: [...]} and   *)
(* a bare array, tags.list returns a list with one tag (a Tag, or the      *)
(* mapping itself) per entry of the array that is a mapping, in the order  *)
(* of the array; the entries that are not mappings are skipped.            *)
C15_TagsListShapes ==
    (/\ pc = "done" /\ op = "list" /\ handled
     /\ reply.status_code = 200
     /\ reply.content.json \in TagsBodies) =>
        LET mappings == SelectSeq(TagArrayOf(reply.content.json),
                                  LAMBDA e : e.t = "dict")
        IN  /\ outcome.kind = "returned"
            /\ outcome.value.t = "list"
            /\ Len(outcome.value.items) = Len(mappings)
            /\ \A i \in 1..Len(mappings) :
                  /\ outcome.value.items[i].t \in {"Tag", "dict"}
                  /\ outcome.value.items[i].id \in
                        {mappings[i].id, mappings[i].id.n}

(* C16: every attachment of a payload sent by create has a `content` key   *)
(* and no `base64` key; the payload has as many attachments as were        *)
(* given, in the same order; an attachment given with only `base64` is     *)
(* sent with content equal to that value, one given with `content` (with   *)
(* or without `base64`) keeps its content.                                 *)
C16_ContentNormalized ==
    (CreateDone /\ sent # <<>> /\ Len(args.attachments.items) > 0) =>
        LET given == args.attachments.items
            posted == sent[1].json.attachments
        IN  /\ posted.t = "list"
            /\ Len(posted.items) = Len(given)
            /\ \A i \in 1..Len(given) :
                  /\ Has(posted.items[i].content)
                  /\ ~Has(posted.items[i].base64)
                  /\ posted.items[i].content =
                        IF Has(given[i].content)
                        THEN given[i].content ELSE given[i].base64
                  /\ posted.items[i].fileName = given[i].fileName
                  /\ posted.items[i].mimeType = given[i].mimeType

C16_Witness ==
    /\ CreateDone
    /\ PostedToCreate
    /\ args.attachments.items =
          <<Attachment("dict", PyStr("file2.png"), PyStr("image/png"), Missing,
                       PyStr("SGVsbG8=")),
            Attachment("dict", PyStr("file2.png"), PyStr("image/png"),
                       PyStr("SGVsbG8="), PyStr("AAAA"))>>
    /\ sent[1].json.attachments.items[1].content = PyStr("SGVsbG8=")
    /\ sent[1].json.attachments.items[2].content = PyStr("SGVsbG8=")
    /\ ~Has(sent[1].json.attachments.items[2].base64)

\* the attachment given to from_mapping reached the content checks
ContentChecked ==
    /\ pc = "done" /\ op = "from_mapping"
    /\ args.raw.t = "dict"
    /\ args.raw.fileName.t = "str" /\ args.raw.mimeType.t = "str"
    /\ args.raw.content.t = "str"
    /\ select_category(args.raw.fileName.s, args.raw.mimeType.s) # NO_CATEGORY

\* the size of a content as the specification measures it
MeasuredSize(content, binary) ==
    IF binary
    THEN Utf8Len(SelectSeq(Runs(content),
                           LAMBDA r : r.char \notin {" ", "\t", "\n", "\r"}))
    ELSE Utf8Len(Runs(content))

(* C17: an attachment passes the size check exactly when its measured size *)
(* is at most the limit of its category: Code and Text content measured as *)
(* its UTF-8 byte length against 1,048,576, Image and PDF content measured *)
(* as the byte length without whitespace against 10,485,760.  A content    *)
(* over the limit raises AttachmentTooLarge for its size.                  *)
C17_SizeLimit ==
    ContentChecked =>
        LET name == select_category(args.raw.fileName.s, args.raw.mimeType.s).name
            binary == name \in {"image", "pdf"}
            size == MeasuredSize(args.raw.content.s, binary)
            limit == IF binary THEN 10485760 ELSE 1048576
            TooLarge == /\ outcome.kind = "raised"
                        /\ outcome.exc = "AttachmentTooLargeError"
                        /\ outcome.message = PyStr("exceeds the byte limit")
        IN  /\ name \in {"image", "pdf", "code", "text"}
            /\ size <= limit <=> ~TooLarge
            /\ (size <= limit /\ ~binary) => outcome.kind = "returned"

\* whitespace does not count: a binary content at the limit once stripped
C17_Witness ==
    /\ ContentChecked
    /\ args.raw.fileName.s = "doc.pdf"
    /\ args.raw.content.s = "A*10485760+nl"
    /\ outcome.kind = "raised"
    /\ outcome.message = PyStr("must be valid base64")

\* the SLA multipliers the specification names, in tenths
ClaimedSlaTenths(tier) ==
    CASE tier = "realtime_answer" -> 20
      [] tier = "fast" -> 15
      [] tier = "standard" -> 10

(* The ceiling of maxCredits x slaMultiplier(tier) x tagMultiplier,        *)
(* computed exactly: the digits of the product, its whole part, plus one   *)
(* when a digit of the fraction is not zero.                               *)
CeilingOfProduct(max_credits, tier, tag_multiplier) ==
    LET ds == TimesInt(tag_multiplier.digits,
                       max_credits * ClaimedSlaTenths(tier), 0)
        k == 1 - tag_multiplier.exp
        n == Len(ds)
        whole == IF n > k THEN ValueOf(SubSeq(ds, 1, n - k)) ELSE 0
        fraction == IF n > k THEN SubSeq(ds, n - k + 1, n) ELSE ds
    IN  IF \E i \in 1..Len(fraction) : fraction[i] # 0
        THEN whole + 1 ELSE whole

(* C18: calculate_final_credit_cost returns the ceiling of                 *)
(* maxCredits x slaMultiplier(tier) x tagMultiplier, with multipliers 2,   *)
(* 1.5 and 1 for RealtimeAnswer, Fast and Standard: a whole number that is *)
(* never below the product; (100, Fast, 1.5) gives 225.                    *)
C18_CeilingOfProduct ==
    (pc = "done" /\ op = "calculate_final_credit_cost") =>
        /\ outcome.kind = "returned"
        /\ outcome.value.n =
              CeilingOfProduct(args.max_credits, args.mode, args.tag_multiplier)
        /\ (/\ args.max_credits = 100 /\ args.mode = "fast"
            /\ args.tag_multiplier = Decimal(<<1, 5>>, -1)) =>
              outcome.value.n = 225

(* C19: retrieve and cancel reject an empty task id with a validation      *)
(* error before any transport call; with a non-empty id retrieve makes     *)
(* one GET of tasks/{id} and cancel one POST of tasks/{id}/cancel with no  *)
(* body.                                                                   *)
C19_RetrieveAndCancel ==
    (pc = "done" /\ op \in {"retrieve", "cancel"}) =>
        IF args.task_id.t = "str" /\ args.task_id.s # ""
        THEN /\ op = "retrieve" =>
                  sent = <<Request("GET", <<"tasks", args.task_id.s>>,
                                   FALSE, PyNone)>>
             /\ op = "cancel" =>
                  sent = <<Request("POST", <<"tasks", args.task_id.s, "cancel">>,
                                   FALSE, PyNone)>>
        ELSE /\ outcome.kind = "raised"
             /\ outcome.exc = "ValueError"
             /\ outcome.message = PyStr("task_id must be provided.")
             /\ sent = <<>>
             /\ ~handled

C19_Witness ==
    /\ pc = "done"
    /\ op = "cancel"
    /\ args.task_id = PyStr("task_789")
    /\ outcome.kind = "returned"
    /\ Len(sent) = 1
    /\ sent[1].method = "POST"
    /\ sent[1].path = <<"tasks", "task_789", "cancel">>
    /\ ~sent[1].has_json

\* a key the constructor accepts: a non-empty str
SuppliesKey(v) == v.t = "str" /\ v.s # ""

\* the constructor's part of C20
ConstructedWithKey ==
    /\ (pc = "done" /\ op = "init") =>
          /\ (outcome.kind = "raised" /\ outcome.exc = "AuthenticationError")
                <=> (~SuppliesKey(args.api_key) /\ ~SuppliesKey(Get(args.environ)))
          /\ outcome.kind = "raised" => outcome.exc = "AuthenticationError"
          /\ outcome.kind = "returned" =>
                /\ client.constructed
                /\ client.api_key =
                      IF SuppliesKey(args.api_key)
                      THEN args.api_key.s ELSE Get(args.environ).s
    /\ client.constructed =>
          /\ client.api_key # ""
          /\ client.Authorization = Bearer(client.api_key)
    /\ sent # <<>> => client.constructed

(* C20: construction raises AuthenticationError exactly when neither the   *)
(* api_key argument nor CODEVF_API_KEY supplies a non-empty key, a         *)
(* non-empty argument takes precedence over the variable, a constructed    *)
(* client has a non-empty key, and every request a constructed client      *)
(* sends carries the header Authorization: Bearer <that key>.              *)
C20_EveryRequestCarriesKey ==
    /\ ConstructedWithKey
    /\ \A i \in 1..Len(sent) :
          AuthorizationSent(client, sent[i]) = Bearer(client.api_key)

(* C20, amended: as above, for every request sent without an               *)
(* Authorization entry in its own headers, which is every request of get,  *)
(* post and the resource methods.                                          *)
C20_RequestCarriesKeyUnlessOverridden ==
    /\ ConstructedWithKey
    /\ \A i \in 1..Len(sent) :
          sent[i].headers.Authorization = NoHeader =>
              AuthorizationSent(client, sent[i]) = Bearer(client.api_key)
    /\ (pc = "done" /\ op \in ApiOperations \ {"request"}) =>
          \A i \in 1..Len(sent) : sent[i].headers = NoHeaders

C20_Witness ==
    /\ pc = "done"
    /\ op = "init"
    /\ args.api_key = PyStr("test_key")
    /\ args.environ = PyStr("env_key")
    /\ outcome.kind = "returned"
    /\ client.api_key = "test_key"
    /\ client.Authorization = Bearer("test_key")

\* the base the caller configured: the argument, or the production URL
ConfiguredBase(base_url) ==
    IF base_url.t = "str" /\ base_url.url # <<>>
    THEN base_url.url
    ELSE <<"https:", "/", "/", "codevf.com", "/", "api", "/", "v1", "/">>

\* what the constructor leaves in base_url
BaseUrlAfterConstruction ==
    /\ (pc = "done" /\ op = "init" /\ outcome.kind = "returned") =>
          LET base == ConfiguredBase(args.base_url)
          IN  client.base_url =
                IF base[Len(base)] = "/" THEN base ELSE base \o <<"/">>
    /\ client.constructed =>
          /\ client.base_url # <<>>
          /\ client.base_url[Len(client.base_url)] = "/"

\* a step that is not a construction leaves base_url as it is
BaseUrlKept == (op' # "init") => client'.base_url = client.base_url

(* C21: after construction base_url is the configured base with a slash    *)
(* appended when it had none and unchanged when it ended with one, the     *)
(* default base being the production URL, and no later operation changes   *)
(* base_url.                                                               *)
C21_BaseUrlNormalized == []BaseUrlAfterConstruction /\ [][BaseUrlKept]_vars

C21_Witness ==
    /\ pc = "done"
    /\ op \in ApiOperations
    /\ sent # <<>>
    /\ earlier
    /\ client.base_url = <<"https:", "/", "/", "api.example.com", "/">>

\* _resolve_exception_class ended, called with a code of its declared type
Resolved ==
    /\ pc = "done"
    /\ op = "resolve_exception_class"
    /\ args.error_code.t \in {"NoneType", "str"}

\* it returned the class `cls`
ResolvedTo(cls) == outcome.kind = "returned" /\ outcome.value.s = cls

(* C22: the status rules win over the error-code table, in the order 401   *)
(* or 403 Authentication, 404 NotFound, 429 RateLimit, 413                 *)
(* PayloadTooLarge, [500, 600) Server, for every error code, the codes of  *)
(* the table included.                                                     *)
C22_StatusRulesFirst ==
    Resolved =>
        /\ args.status_code \in {401, 403} => ResolvedTo("AuthenticationError")
        /\ args.status_code = 404 => ResolvedTo("NotFoundError")
        /\ args.status_code = 429 => ResolvedTo("RateLimitError")
        /\ args.status_code = 413 => ResolvedTo("PayloadTooLargeError")
        /\ (500 <= args.status_code /\ args.status_code < 600) =>
              ResolvedTo("ServerError")

C22_Witness ==
    /\ Resolved
    /\ args.status_code = 500
    /\ args.error_code = PyStr("rate_limit_exceeded")
    /\ ResolvedTo("ServerError")

\* the exception kind the specification gives for a code at status 400
ClaimedKind(code) ==
    CASE code = "invalid_mode" -> "InvalidModeError"
      [] code = "invalid_tag" -> "InvalidTagError"
      [] code = "invalid_metadata" -> "InvalidMetadataError"
      [] code = "max_credits_exceeded" -> "MaxCreditsExceededError"
      [] code = "attachment_limit_exceeded" -> "AttachmentLimitExceededError"
      [] code = "attachment_too_large" -> "AttachmentTooLargeError"
      [] code = "idempotency_conflict" -> "IdempotencyConflictError"
      [] code = "insufficient_credits" -> "InsufficientCreditsError"
      [] code = "token_expired" -> "AuthenticationError"
      [] code = "rate_limit_exceeded" -> "RateLimitError"
      [] OTHER -> "BadRequestError"

C24_TableOnlyAtBadRequest ==
    (/\ Resolved
     /\ ~(200 <= args.status_code /\ args.status_code < 300)
     /\ args.status_code \notin {400, 401, 403, 404, 413, 429}
     /\ ~(500 <= args.status_code /\ args.status_code < 600)) =>
        ResolvedTo("APIError")

\* a result body of the standard shape {message, deliverables[]}
StandardShape(result) ==
    /\ result.t = "dict"
    /\ Has(result.message)
    /\ result.deliverables.t = "list"

(* C25: when the payload of a task carries no responseSchema,              *)
(* TaskResponse.from_payload returns `result` as a TaskResult exactly when *)
(* the result body has the shape {message, deliverables[]}; a result       *)
(* mapping of another shape, such as {score, issues}, is returned as the   *)
(* raw mapping, unchanged.                                                 *)
C25_FallbackByShape ==
    (/\ pc = "done" /\ op = "from_payload"
     /\ outcome.kind = "returned"
     /\ ~Has(args.payload.responseSchema)
     /\ args.payload.result.t = "dict") =>
        IF StandardShape(args.payload.result)
        THEN outcome.value.result.t = "TaskResult"
        ELSE outcome.value.result = args.payload.result

\* the `mode` field of the payload names one of the three tiers
ModeFieldKnown(payload) ==
    payload.mode.t = "str" /\ payload.mode.s \in {"realtime_answer", "fast", "standard"}

(* C26: TaskResponse.from_payload never defaults the tier: it returns a    *)
(* TaskResponse only when the `mode` field of the payload is one of        *)
(* realtime_answer, fast, standard, and the decoded tier is that value;    *)
(* with an unknown value or no `mode` field it raises.                     *)
C26_TierNeverDefaulted ==
    (pc = "done" /\ op = "from_payload") =>
        /\ outcome.kind = "returned" =>
              /\ ModeFieldKnown(args.payload)
              /\ outcome.value.mode = args.payload.mode.s
        /\ ~ModeFieldKnown(args.payload) => outcome.kind = "raised"

\* the extension of a file name: what follows its last ".", lower-cased
Extension(file_name) ==
    LET cs == LowerSeq(Chars[file_name])
        dots == {i \in 1..Len(cs) : cs[i] = "."}
    IN  IF dots = {} THEN <<>>
        ELSE SubSeq(cs, (CHOOSE i \in dots : \A j \in dots : j <= i) + 1, Len(cs))

\* the category lists the extension or the mime type
Lists(category, file_name, mime_type) ==
    \/ \E ext \in category.extensions : Chars[ext] = Extension(file_name)
    \/ mime_type \in category.mime_types

\* the outcome of the classification: a category name, "" when it failed
Classified ==
    IF outcome.kind = "returned" THEN outcome.value.s ELSE ""

(* C27: classification selects the first category in the order Image, PDF, *)
(* Code, Text whose extension list contains the lower-cased extension of   *)
(* the file name or whose mime-type list contains the declared mime type   *)
(* (a.png declared text/plain is Image, notes.txt declared text/plain is   *)
(* Code); it fails with an unsupported-type error exactly when no category *)
(* matches; the outcome is determined by fileName and mimeType alone.      *)
C27_FirstMatchingCategory ==
    (pc = "done" /\ op = "select_category") =>
        LET order == <<IMAGE_CATEGORY, PDF_CATEGORY, CODE_CATEGORY, TEXT_CATEGORY>>
            hits == {i \in 1..4 : Lists(order[i], args.file_name, args.mime_type)}
        IN  /\ hits = {} <=>
                  RaisedWith("AttachmentTooLargeError", "Unsupported attachment type")
            /\ hits # {} =>
                  Classified = order[CHOOSE i \in hits : \A j \in hits : i <= j].name
            /\ (args.file_name = "a.png" /\ args.mime_type = "text/plain") =>
                  Classified = "image"
            /\ (args.file_name = "notes.txt" /\ args.mime_type = "text/plain") =>
                  Classified = "code"

C27_Witness ==
    /\ pc = "done"
    /\ op = "select_category"
    /\ args.file_name = "notes.txt"
    /\ args.mime_type = "text/plain"
    /\ Classified = "code"

\* the characters the specification allows in a metadata key
KeyCharacters ==
    {"A", "B", "C", "D", "E", "F", "G", "H", "I", "J", "K", "L", "M", "N", "O",
     "P", "Q", "R", "S", "T", "U", "V", "W", "X", "Y", "Z",
     "a", "b", "c", "d", "e", "f", "g", "h", "i", "j", "k", "l", "m", "n", "o",
     "p", "q", "r", "s", "t", "u", "v", "w", "x", "y", "z",
     "0", "1", "2", "3", "4", "5", "6", "7", "8", "9", "_"}

\* the entry has a key or a value the specification refuses
EntryRefused(entry) ==
    \/ "key_type" \in DOMAIN entry
    \/ Chars[entry.key] = <<>>
    \/ \E i \in 1..Len(Chars[entry.key]) : Chars[entry.key][i] \notin KeyCharacters
    \/ entry.value.t \notin {"str", "bool", "int", "float"}

(* C28: validate_metadata returns None for None; for a mapping it raises   *)
(* InvalidMetadata exactly when some key is not a string matching          *)
(* ^[A-Za-z0-9_]+$ or some value is not a string, boolean, integer or      *)
(* float; otherwise it returns a new mapping object with exactly the       *)
(* entries of the input; the input mapping is left unchanged.              *)
C28_MetadataValidated ==
    (pc = "done" /\ op = "validate_metadata") =>
        /\ args.metadata.t = "NoneType" =>
              (outcome.kind = "returned" /\ outcome.value.t = "NoneType")
        /\ args.metadata.t = "dict" =>
              IF \E i \in 1..Len(args.metadata.items) :
                     EntryRefused(args.metadata.items[i])
              THEN outcome.kind = "raised" /\ outcome.exc = "InvalidMetadataError"
              ELSE /\ outcome.kind = "returned"
                   /\ outcome.value.t = "dict"
                   /\ outcome.value.items = args.metadata.items
                   /\ ~outcome.value.is_argument
        /\ held.metadata = args.metadata

C28_Witness ==
    /\ pc = "done"
    /\ op = "validate_metadata"
    /\ Len(args.metadata.items) = 3
    /\ outcome.kind = "returned"
    /\ outcome.value.items = args.metadata.items
    /\ ~outcome.value.is_argument

\* the contents of the model that hold whitespace, and each without it
WithoutWhitespace ==
    ("SGVs+nl+bG8=" :> "SGVsbG8=")
      @@ ("A*10485760+nl" :> "A*10485760")
      @@ ("A*10485761+nl" :> "A*10485761")

(* C29: for an Image or PDF attachment whitespace in the content does not  *)
(* change the outcome of the validation: a content passes exactly when the *)
(* content with all its whitespace removed passes, so line-wrapped base64  *)
(* that is valid and within the limit once unwrapped is accepted.          *)
C29_WhitespaceIgnored ==
    (/\ ContentChecked
     /\ select_category(args.raw.fileName.s, args.raw.mimeType.s).requires_base64
     /\ args.raw.content.s \in DOMAIN WithoutWhitespace) =>
        LET stripped == WithoutWhitespace[args.raw.content.s]
        IN  /\ Runs(stripped) =
                  SelectSeq(Runs(args.raw.content.s),
                            LAMBDA r : r.char \notin {" ", "\t", "\n", "\r"})
            /\ outcome.kind = "returned" <=>
                  from_mapping_ok([args.raw EXCEPT !.content = PyStr(stripped)])

(* C30: create never modifies the caller's inputs: after it returns or     *)
(* raises, the attachments list has the same elements, every attachment    *)
(* mapping has the keys and values it had, a `base64` key included         *)
(* although the payload sent has none, and the metadata mapping is         *)
(* unchanged.                                                              *)
C30_InputsUntouched ==
    (pc = "done" /\ op = "create") =>
        /\ held.attachments = args.attachments
        /\ held.metadata = args.metadata
        /\ \A i \in 1..Len(args.attachments.items) :
              (args.attachments.items[i].t = "dict"
                 /\ Has(args.attachments.items[i].base64)) =>
                  /\ Has(held.attachments.items[i].base64)
                  /\ sent # <<>> => ~Has(sent[1].json.attachments.items[i].base64)

C30_Witness ==
    /\ pc = "done"
    /\ op = "create"
    /\ sent # <<>>
    /\ outcome.kind = "returned"
    /\ args.metadata.t = "dict"
    /\ Len(args.attachments.items) = 2
    /\ Has(args.attachments.items[2].base64)
    /\ Has(held.attachments.items[2].base64)
    /\ ~Has(sent[1].json.attachments.items[2].base64)

===========================================================================
